---------------------------- MODULE Spec2Model ----------------------------
(***************************************************************************)
(* Capnograph UI (src/capnograph-ui.py): the MainUI object, its sample     *)
(* handler dataUpdate with the two engines volBreath and veVco2, the reset *)
(* and the configuration handlers.                                         *)
(*                                                                         *)
(* Units.  Readings are integers (SLPM, ppm).  Time is in milliseconds     *)
(* since the construction of MainUI.  A breath volume is kept in units of  *)
(* 1/6000 L, so that n*(5/6000) L is the integer n*5.  integratedCo is     *)
(* kept in ppm*ms, so that (n/1000000)*seconds is the integer n*ms (the    *)
(* value of the program is this number divided by 10^9).  Ratios are exact *)
(* reduced fractions [num, den]; the floating-point rounding of the        *)
(* program is not modelled.                                                *)
(***************************************************************************)
EXTENDS Integers, Sequences, FiniteSets, TLC

VARIABLES
    win,      \* the MainUI object: its fields as a record
    fs,       \* the file system: file name -> rows written
    clock,    \* datetime.now(), in ms since MainUI was constructed
    alive,    \* FALSE once the application has aborted
    fresh,    \* observer: a MainUI constructed at the last reset, fed the same events
    last,     \* observer: the last handler run, its input and its outcome
    obs,      \* observer: what has been processed since the last reset
    queue,    \* the newData signals posted to the main thread and not yet delivered
    stack,    \* the calls of dataUpdate in progress in the main thread, innermost first
    workers   \* the two sensor workers, their class-level oldData, and an observer

vars == <<win, fs, clock, alive, fresh, last, obs, queue, stack, workers>>

-----------------------------------------------------------------------------
(* Bounds of the model *)

\* number of samples delivered in a run of Spec (both channels)
MaxSamples == 4
\* number of samples delivered in a run of SpecFlow
MaxFlowSamples == 5
\* number of samples delivered in a run of SpecCo
MaxCoSamples == 3
\* number of button presses (reset, configuration updates) in a run
MaxUi == 1
\* SpecFull: breaths closed before the run starts, and flow samples delivered in it
PrefilledBreaths == 99
MaxFullSamples == 4
\* SpecQueue: signals emitted by the two workers, and signals waiting at a time
MaxQueueSamples == 3
MaxQueue == 2
\* number of samples delivered in a run of SpecConfig
MaxConfigSamples == 3
\* SpecSave: samples delivered and presses of Save and Stop
MaxSaveSamples == 3
MaxSaveUi == 2
\* number of passes of its loop a worker makes in a run of SpecWorker
MaxWorkerSteps == 3
\* number of readings of each channel in the test file
TestLen == 2
\* number of samples delivered, and of capacities set, in a run of SpecTwin
MaxTwinSamples == 4
MaxTwinUi == 2
\* SpecLong: the samples at the trigger that start the run, and the samples after
LongBreath == 499
MaxLongSamples == 3
\* number of presses of Connect and Disconnect in a run of SpecConnect
MaxConnectUi == 3
\* number of passes of a worker's loop in a run of SpecConnect
MaxConnectSteps == 2
\* number of passes of a worker's loop before the Disconnect in a run of SpecKill
MaxKillSteps == 2
\* the samples a worker may still emit after a Disconnect: the one of the pass it
\* is in and the repeated value of its failure handler
MaxAfterKill == 2
\* number of passes of the flow worker's loop in a run of SpecBatch
MaxBatchPasses == 260
\* number of samples delivered in a run of SpecTrig
MaxTrigSamples == 3
\* number of samples delivered in a run of SpecSink
MaxSinkSamples == 3

-----------------------------------------------------------------------------
(* Program constants *)

HistCapInit == 500
VolBreathsCap == 100
CurVolCap == 500
CoTimeCap == 5
FloTrigInit == 10
CoTrigInit == 20000
\* 0.05 s, 0.04 s and 0.06 s in ms
NominalMs == 50
BandLowMs == 40
BandHighMs == 60
\* n*(5/6000) in units of 1/6000 L
VolFactor == 5
\* n / 1000000
PpmScale == 1000000
\* volumes are kept in units of 1/6000 L
UnitsPerLitre == 6000

DefaultSave == "SaveLog.csv"
\* the workers' oldData = collections.deque([0.0], 5)
OldDataCap == 5
\* countMax: readings between two requests to the flow meter
CountMax == 250

-----------------------------------------------------------------------------
(* Values *)

None == <<>>
Some(x) == <<x>>

\* sum(s), computed by halves to keep the evaluation shallow on long sequences
RECURSIVE SeqSum(_)
SeqSum(s) ==
    IF s = <<>> THEN 0
    ELSE IF Len(s) = 1 THEN s[1]
    ELSE LET h == Len(s) \div 2
         IN  SeqSum(SubSeq(s, 1, h)) + SeqSum(SubSeq(s, h + 1, Len(s)))

Abs(x) == IF x < 0 THEN -x ELSE x

RECURSIVE Gcd(_, _)
Gcd(a, b) == IF b = 0 THEN a ELSE Gcd(b, a % b)

\* the exact value num/den (den # 0) as a reduced fraction with den > 0
Frac(num, den) ==
    LET g == Gcd(Abs(num), Abs(den))
        s == IF den < 0 THEN -1 ELSE 1
    IN  [num |-> s * (num \div g), den |-> s * (den \div g)]

Zero == [num |-> 0, den |-> 1]

\* "{:0.3f}".format(num/den): the value in thousandths, rounded to nearest
Format3(num, den) ==
    LET f == Frac(num, den) IN (2000 * f.num + f.den) \div (2 * f.den)

\* a bounded buffer that keeps its first maxlen items and rejects the rest
Deque_KeepOldest(items, maxlen) ==
    IF Len(items) <= maxlen THEN items ELSE SubSeq(items, 1, maxlen)

\* collections.deque(items, maxlen): the last maxlen items
Deque(items, maxlen) ==
    IF Len(items) <= maxlen THEN items
    ELSE SubSeq(items, Len(items) - maxlen + 1, Len(items))

\* an append that never evicts
DequeAppend_Unbounded(q, x, maxlen) == Append(q, x)

\* deque.append(x) on a deque of the given maxlen: the oldest item is evicted when full
DequeAppend(q, x, maxlen) == Deque(Append(q, x), maxlen)

Last(q) == q[Len(q)]

-----------------------------------------------------------------------------
(* Text input of the line edits: a sequence of characters *)

DigitChars == <<"0", "1", "2", "3", "4", "5", "6", "7", "8", "9">>

IsDigit(c) == \E i \in 1..10 : DigitChars[i] = c

DigitVal(c) == (CHOOSE i \in 1..10 : DigitChars[i] = c) - 1

RECURSIVE DigitsVal(_)
DigitsVal(s) ==
    IF s = <<>> THEN 0 ELSE 10 * DigitsVal(SubSeq(s, 1, Len(s) - 1)) + DigitVal(Last(s))

\* int(text) and float(text) on an optionally signed run of digits; anything else
\* raises ValueError
ParseNumber(text) ==
    LET signed == Len(text) > 0 /\ text[1] \in {"-", "+"}
        body   == IF signed THEN Tail(text) ELSE text
        valid  == Len(body) > 0 /\ \A i \in 1..Len(body) : IsDigit(body[i])
    IN  IF ~valid THEN [ok |-> FALSE, val |-> 0]
        ELSE [ok |-> TRUE,
              val |-> IF signed /\ text[1] = "-" THEN -DigitsVal(body) ELSE DigitsVal(body)]

-----------------------------------------------------------------------------
(* The log file *)

Header ==
    <<Some("Datetime1"), Some("Flow SLPM"), Some("Datetime2"), Some("CO2 ppm"),
      Some("Datetime3"), Some("VE"), Some("Datetime3"), Some("VE over VCO2"),
      Some("Datetime4"), Some("CO2Peak")>>

FlowRow(t, n) == <<Some(t), Some(n), None, None, None, None, None, None, None, None>>

\* a CO2 row one field short
CoRow_Short(t, n) == <<None, None, Some(t), Some(n), None, None, None, None, None>>

CoRow(t, n) == <<None, None, Some(t), Some(n), None, None, None, None, None, None>>

\* the breath written into the flow columns
BreathRow_AsFlow(t, v) == FlowRow(t, v)

BreathRow(t, v) == <<None, None, None, None, Some(t), Some(v), None, None, None, None>>

\* open(name, 'a') then writerow(row): the file is created when missing
AppendRow(files, name, row) ==
    IF name \in DOMAIN files THEN [files EXCEPT ![name] = Append(@, row)]
    ELSE files @@ (name :> <<row>>)

\* setupSave: the default file is (re)written with the header row
SetupSave(files, name) ==
    IF name \notin DOMAIN files \/ name = DefaultSave
    THEN [f \in (DOMAIN files) \cup {name} |-> IF f = name THEN <<Header>> ELSE files[f]]
    ELSE files

-----------------------------------------------------------------------------
(* MainUI.__init__ *)

MainUIInit(xTime) ==
    [ saveName         |-> DefaultSave,
      saving           |-> FALSE,     \* the Stop button is enabled, Save is not
      histCap          |-> HistCapInit,
      flowX            |-> <<xTime>>,
      flowY            |-> <<0>>,
      coX              |-> <<xTime>>,
      coY              |-> <<0>>,
      integX           |-> <<xTime>>,
      integY           |-> <<0>>,
      veVco2X          |-> <<xTime>>,
      veVco2Y          |-> <<Zero>>,
      veVco2Val        |-> <<Zero>>,
      floTrig          |-> FloTrigInit,
      coTrig           |-> CoTrigInit,
      integratedCo     |-> 0,
      integratedCoPts  |-> 0,
      integratedCoTime |-> <<xTime, xTime>>,
      maxCo2Val        |-> 0,
      maxCo2ValLast    |-> 0,
      volBreathsQ      |-> <<>>,
      curVol           |-> <<0>>,
      volFlag          |-> FALSE,
      coFlag           |-> FALSE,
      label_vol_cur    |-> 0,
      label_vol_avg    |-> 0,
      label_veVc       |-> 0,
      label_percPk     |-> 0 ]

-----------------------------------------------------------------------------
(* MainUI.volBreath *)

\* n*(5/6000): the volume contribution of one flow sample
Contribution(n) == n * VolFactor

\* a strict comparison in place of >=
AtOrAboveFloTrig_Strict(n, trig) == n > trig

\* the comparison n >= self.floTrig
AtOrAboveFloTrig(n, trig) == n >= trig

\* the volume of the last breath shown as the average
AverageLabel_Last(q) == Format3(Last(q), UnitsPerLitre)

\* "{:0.3f}".format(sum(self.volBreathsQ)/len(self.volBreathsQ)), in thousandths of a litre
AverageLabel(q) == Format3(SeqSum(q), UnitsPerLitre * Len(q))

\* Runs on every flow sample.  okWrite: whether open(self.saveName, 'a') succeeds.
\* The two tests of volFlag are two separate if statements, not if/else.
volBreath(self, files, n, now, okWrite) ==
    LET s1 == IF ~self.volFlag /\ AtOrAboveFloTrig(n, self.floTrig)
              THEN [self EXCEPT !.curVol = DequeAppend(@, Contribution(n), CurVolCap),
                                !.volFlag = TRUE]
              ELSE self
    IN  IF ~s1.volFlag
        THEN [self |-> s1, fs |-> files, exc |-> "none"]
        ELSE IF AtOrAboveFloTrig(n, s1.floTrig)
        THEN [self |-> [s1 EXCEPT !.curVol = DequeAppend(@, Contribution(n), CurVolCap)],
              fs |-> files, exc |-> "none"]
        ELSE LET q  == DequeAppend(s1.volBreathsQ, SeqSum(s1.curVol), VolBreathsCap)
                 s2 == [s1 EXCEPT !.volBreathsQ = q,
                                  !.label_vol_cur = Format3(Last(q), UnitsPerLitre)]
             IN  IF ~okWrite
                 THEN [self |-> s2, fs |-> files, exc |-> "OSError"]
                 ELSE [self |-> [s2 EXCEPT !.curVol = <<>>,
                                           !.label_vol_avg = AverageLabel(q),
                                           !.volFlag = FALSE],
                       fs |-> AppendRow(files, s2.saveName, BreathRow(now, Last(q))),
                       exc |-> "none"]

-----------------------------------------------------------------------------
(* MainUI.veVco2 *)

\* >= in place of >
AboveCoTrig_OrEqual(n, trig) == n >= trig

\* the comparison n > self.coTrig
AboveCoTrig(n, trig) == n > trig

\* the bounds of the band taken as outside it
EffectiveInterval_OpenBand(elapsed) ==
    IF elapsed >= BandHighMs \/ elapsed <= BandLowMs THEN NominalMs ELSE elapsed

\* a sample outside the band integrated over no time at all
EffectiveInterval_Skip(elapsed) ==
    IF elapsed > BandHighMs \/ elapsed < BandLowMs THEN 0 ELSE elapsed

\* the measured time always, without the band
EffectiveInterval_Measured(elapsed) == elapsed

\* the interval a sample is integrated over, given the time since the previous
\* integrated timestamp: the nominal interval when that is > 0.06 s or < 0.04 s
EffectiveInterval(elapsed) ==
    IF elapsed > BandHighMs \/ elapsed < BandLowMs THEN NominalMs ELSE elapsed

\* the branch n > self.coTrig with the point count taken from the readings above
\* the trigger that the display history holds
veVco2Integrate_FromHistory(self, n, now) ==
    LET t   == DequeAppend(self.integratedCoTime, now, CoTimeCap)
        el  == t[Len(t)] - t[Len(t) - 1]
        I   == self.integratedCo + n * EffectiveInterval(el)
        pts == Cardinality({i \in 1..Len(self.coY) : self.coY[i] > self.coTrig})
        s1  == [self EXCEPT !.integratedCoTime = t,
                            !.integratedCo = I,
                            !.integratedCoPts = pts]
    IN  IF I = 0
        THEN [self |-> s1, exc |-> "ZeroDivisionError", ratio |-> None]
        ELSE LET r == Frac(pts * NominalMs * PpmScale, I)
             IN  [self |-> [s1 EXCEPT !.veVco2Val = DequeAppend(@, r, s1.histCap),
                                      !.label_veVc = Format3(r.num, r.den)],
                  exc |-> "none", ratio |-> Some(r)]

\* the branch n > self.coTrig.  ratio: what was appended to veVco2Val, if anything.
veVco2Integrate(self, n, now) ==
    LET t   == DequeAppend(self.integratedCoTime, now, CoTimeCap)
        el  == t[Len(t)] - t[Len(t) - 1]
        I   == self.integratedCo + n * EffectiveInterval(el)
        pts == self.integratedCoPts + 1
        s1  == [self EXCEPT !.integratedCoTime = t,
                            !.integratedCo = I,
                            !.integratedCoPts = pts]
    IN  IF I = 0
        THEN \* 1/(0.0/(pts*.05)) raises ZeroDivisionError; nothing is appended
             [self |-> s1, exc |-> "ZeroDivisionError", ratio |-> None]
        ELSE LET r == Frac(pts * NominalMs * PpmScale, I)
             IN  [self |-> [s1 EXCEPT !.veVco2Val = DequeAppend(@, r, s1.histCap),
                                      !.label_veVc = Format3(r.num, r.den)],
                  exc |-> "none", ratio |-> Some(r)]

\* the integration starting over when the reading drops to the trigger
veVco2Below_Reset(self) ==
    [self |-> [self EXCEPT !.veVco2Val = DequeAppend(@, Zero, self.histCap),
                           !.integratedCo = 0,
                           !.integratedCoPts = 0],
     exc |-> "none", ratio |-> Some(Zero)]

\* the else branch: a zero is appended and nothing else changes
veVco2Below(self) ==
    [self |-> [self EXCEPT !.veVco2Val = DequeAppend(@, Zero, self.histCap)],
     exc |-> "none", ratio |-> Some(Zero)]

\* Runs on every CO2 sample.
veVco2(self, n, now) ==
    IF AboveCoTrig(n, self.coTrig) THEN veVco2Integrate(self, n, now)
    ELSE veVco2Below(self)

\* a co2Max that ends the breath in progress
co2Max_ClosesBreath(self, n) == [self EXCEPT !.volFlag = FALSE]

\* co2Max: its body is pass (the rest is a string literal)
co2Max(self, n) == self

-----------------------------------------------------------------------------
(* MainUI.dataUpdate: the slot both workers' newData signals are connected to *)

\* okLog: whether the open of the log for the sample's row succeeds;
\* okVol: whether the open for a breath row succeeds.
dataUpdate(self, files, index, n, now, okLog, okVol) ==
    IF index = 0
    THEN LET s1 == [self EXCEPT !.flowX = DequeAppend(@, now, self.histCap),
                                !.flowY = DequeAppend(@, n, self.histCap),
                                !.integY = DequeAppend(@, 0, self.histCap),
                                !.integX = DequeAppend(@, now, self.histCap)]
         IN  IF ~okLog
             THEN [self |-> s1, fs |-> files, exc |-> "OSError", ratio |-> None]
             ELSE LET r == volBreath(s1, AppendRow(files, s1.saveName, FlowRow(now, n)),
                                     n, now, okVol)
                  IN  [self |-> r.self, fs |-> r.fs, exc |-> r.exc, ratio |-> None]
    ELSE LET s1 == [self EXCEPT !.coX = DequeAppend(@, now, self.histCap),
                                !.coY = DequeAppend(@, n, self.histCap)]
         IN  IF ~okLog
             THEN [self |-> s1, fs |-> files, exc |-> "OSError", ratio |-> None]
             ELSE LET r == veVco2(s1, n, now)
                  IN  [self |-> IF r.exc = "none" THEN co2Max(r.self, n) ELSE r.self,
                       fs |-> AppendRow(files, s1.saveName, CoRow(now, n)),
                       exc |-> r.exc, ratio |-> r.ratio]

\* dataUpdate up to and including the write of the sample's row
dataUpdateLog(self, files, index, n, now, okLog) ==
    LET s1 == IF index = 0
              THEN [self EXCEPT !.flowX = DequeAppend(@, now, self.histCap),
                                !.flowY = DequeAppend(@, n, self.histCap),
                                !.integY = DequeAppend(@, 0, self.histCap),
                                !.integX = DequeAppend(@, now, self.histCap)]
              ELSE [self EXCEPT !.coX = DequeAppend(@, now, self.histCap),
                                !.coY = DequeAppend(@, n, self.histCap)]
    IN  IF ~okLog THEN [self |-> s1, fs |-> files, exc |-> "OSError"]
        ELSE [self |-> s1,
              fs |-> AppendRow(files, s1.saveName,
                               IF index = 0 THEN FlowRow(now, n) ELSE CoRow(now, n)),
              exc |-> "none"]

\* dataUpdate from there on: the call of the engine of the channel
dataUpdateEngine(self, files, index, n, now, okVol) ==
    IF index = 0
    THEN LET r == volBreath(self, files, n, now, okVol)
         IN  [self |-> r.self, fs |-> r.fs, exc |-> r.exc, ratio |-> None]
    ELSE LET r == veVco2(self, n, now)
         IN  [self |-> IF r.exc = "none" THEN co2Max(r.self, n) ELSE r.self,
              fs |-> files, exc |-> r.exc, ratio |-> r.ratio]

-----------------------------------------------------------------------------
(* The button handlers *)

\* a reset that also starts the ratio history over
resetAvg_ClearsRatios(self) ==
    [self EXCEPT !.integratedCo = 0,
                 !.integratedCoPts = 0,
                 !.label_veVc = 0,
                 !.maxCo2Val = 0,
                 !.label_percPk = 0,
                 !.volBreathsQ = <<>>,
                 !.label_vol_avg = 0,
                 !.volFlag = FALSE,
                 !.veVco2Val = Deque(<<Zero>>, self.histCap)]

resetAvg(self) ==
    [self EXCEPT !.integratedCo = 0,
                 !.integratedCoPts = 0,
                 !.label_veVc = 0,
                 !.maxCo2Val = 0,
                 !.label_percPk = 0,
                 !.volBreathsQ = <<>>,
                 !.label_vol_avg = 0,
                 !.volFlag = FALSE]

\* a capacity taken without a look at its sign
setDataPts_Unchecked(self, text, xTime) ==
    LET p == ParseNumber(text)
    IN  IF text = <<>> \/ ~p.ok THEN self
        ELSE [self EXCEPT !.histCap = p.val,
                          !.flowX = Deque(<<xTime>>, p.val),
                          !.flowY = Deque(<<0>>, p.val),
                          !.coX = Deque(<<xTime>>, p.val),
                          !.coY = Deque(<<0>>, p.val),
                          !.integX = Deque(<<xTime>>, p.val),
                          !.integY = Deque(<<0>>, p.val),
                          !.veVco2X = Deque(<<xTime>>, p.val),
                          !.veVco2Y = Deque(<<Zero>>, p.val),
                          !.veVco2Val = Deque(<<Zero>>, p.val)]

\* a negative maxlen makes the first deque(...) raise, before any field is assigned
setDataPts(self, text, xTime) ==
    LET p == ParseNumber(text)
    IN  IF text = <<>> \/ ~p.ok \/ p.val < 0 THEN self
        ELSE [self EXCEPT !.histCap = p.val,
                          !.flowX = Deque(<<xTime>>, p.val),
                          !.flowY = Deque(<<0>>, p.val),
                          !.coX = Deque(<<xTime>>, p.val),
                          !.coY = Deque(<<0>>, p.val),
                          !.integX = Deque(<<xTime>>, p.val),
                          !.integY = Deque(<<0>>, p.val),
                          !.veVco2X = Deque(<<xTime>>, p.val),
                          !.veVco2Y = Deque(<<Zero>>, p.val),
                          !.veVco2Val = Deque(<<Zero>>, p.val)]

\* open(name, ...) raises for the empty name
CanOpen(name) == name # ""

\* Save: the name is taken first; then the file is created with the header when it
\* is missing or is the default log, else opened for appending; then the buttons are
\* switched.  Any exception is swallowed where it occurs.
newSave(self, files, name, okOpen) ==
    LET s1 == [self EXCEPT !.saveName = name]
    IN  IF ~okOpen THEN [self |-> s1, fs |-> files]
        ELSE [self |-> [s1 EXCEPT !.saving = TRUE], fs |-> SetupSave(files, name)]

\* Stop: back to the default log, which is opened in 'w' mode since its name is the
\* default name
stopSave(self, files) ==
    [self |-> [self EXCEPT !.saveName = DefaultSave, !.saving = FALSE],
     fs |-> SetupSave(files, DefaultSave)]

\* a trigger update that also starts the open breath over
setIntegPts_RestartsBreath(self, text) ==
    LET p == ParseNumber(text)
    IN  IF text = <<>> \/ ~p.ok THEN self
        ELSE [self EXCEPT !.floTrig = p.val, !.curVol = <<>>, !.volFlag = FALSE]

setIntegPts(self, text) ==
    LET p == ParseNumber(text)
    IN  IF text = <<>> \/ ~p.ok THEN self ELSE [self EXCEPT !.floTrig = p.val]

setCoIntegPts(self, text) ==
    LET p == ParseNumber(text)
    IN  IF text = <<>> \/ ~p.ok THEN self ELSE [self EXCEPT !.coTrig = p.val]

-----------------------------------------------------------------------------
(* Inputs *)

\* flow readings: below, at and above the initial trigger
FlowVals == {5, 10, 12}
\* CO2 readings: zero, at and above the initial trigger
CoVals == {0, 20000, 50000}
\* time between two deliveries, in ms: sums of these fall below, on the bounds of,
\* inside and above the band [0.04 s, 0.06 s]
Deltas == {20, 50, 100}
\* the readings and the cadence used when both sensors are connected
FlowValsBoth == {5, 10}
CoValsBoth == {20000, 50000}
DeltasBoth == {NominalMs}
\* what the user may have typed in a line edit: no number, a number
FloTrigTexts == {<<"a">>, <<"1", "2">>}
CoTrigTexts == {<<"a">>, <<"-", "1">>}
DataPtsTexts == {<<"a">>, <<"2">>}
\* the same with nothing typed, and with a negative number of points
ConfigTrigTexts == {<<>>, <<"a">>, <<"1", "2">>}
ConfigCoTrigTexts == {<<>>, <<"a">>, <<"-", "1">>}
ConfigDataPtsTexts == {<<>>, <<"a">>, <<"-", "1">>, <<"2">>}
\* numbers of points: none, fewer than the samples of a run
TwinDataPtsTexts == {<<"0">>, <<"2">>}
\* what the user may have typed as the save-file name: a new name, the default
\* name, nothing
SaveNames == {"run1.csv", DefaultSave, ""}

-----------------------------------------------------------------------------
(* The sensor workers.  A reading of the flow meter is a float, kept as an exact *)
(* fraction; a reading of the CO2 meter is an integer.  The flow worker's        *)
(* oldData holds the float 0.0 and then the strings found in what the meter      *)
(* sent: it is kept as texts, 0.0 being the text "0.0".                          *)

\* the last position of the run of digits that starts at p (p - 1 if there is none)
RECURSIVE DigitRunEnd(_, _)
DigitRunEnd(t, p) ==
    IF p <= Len(t) /\ IsDigit(t[p]) THEN DigitRunEnd(t, p + 1) ELSE p - 1

\* the match of '[+-]?\d+.\d+' that starts at position s, if any: the first run of
\* digits as long as it can be, then any character but a newline, then digits
MatchFloatLikeAt(t, s) ==
    LET p  == IF t[s] \in {"+", "-"} THEN s + 1 ELSE s
        qs == {q \in p..DigitRunEnd(t, p) :
                  q + 2 <= Len(t) /\ t[q + 1] # "\n" /\ IsDigit(t[q + 2])}
    IN  IF qs = {} THEN None
        ELSE LET q == CHOOSE x \in qs : \A y \in qs : y <= x
             IN  Some(SubSeq(t, s, DigitRunEnd(t, q + 2)))

\* re.findall('[+-]?\d+.\d+', t)[0], None standing for the IndexError
FindFloatLike(t) ==
    LET ss == {s \in 1..Len(t) : MatchFloatLikeAt(t, s) # None}
    IN  IF ss = {} THEN None
        ELSE MatchFloatLikeAt(t, CHOOSE s \in ss : \A y \in ss : s <= y)

\* float(text) on an optionally signed decimal numeral; anything else raises
\* ValueError (exponents, underscores, inf and nan are not in the texts used)
ParseFloat(text) ==
    LET signed   == Len(text) > 0 /\ text[1] \in {"-", "+"}
        body     == IF signed THEN Tail(text) ELSE text
        dots     == {i \in 1..Len(body) : body[i] = "."}
        digits   == SelectSeq(body, IsDigit)
        valid    == /\ Cardinality(dots) <= 1
                    /\ Len(digits) >= 1
                    /\ Len(digits) + Cardinality(dots) = Len(body)
        decimals == IF dots = {} THEN 0 ELSE Len(body) - (CHOOSE i \in dots : TRUE)
        v        == Frac(DigitsVal(digits), 10 ^ decimals)
    IN  IF ~valid THEN [ok |-> FALSE, val |-> Zero]
        ELSE [ok |-> TRUE,
              val |-> IF signed /\ text[1] = "-" THEN Frac(-v.num, v.den) ELSE v]

\* re.findall('\d+', t) from position p on: the maximal runs of digits
RECURSIVE DigitRunsFrom(_, _)
DigitRunsFrom(t, p) ==
    IF p > Len(t) THEN <<>>
    ELSE IF IsDigit(t[p])
         THEN <<SubSeq(t, p, DigitRunEnd(t, p))>> \o DigitRunsFrom(t, DigitRunEnd(t, p) + 1)
         ELSE DigitRunsFrom(t, p + 1)

\* the text of the float 0.0
ZeroText == <<"0", ".", "0">>

\* dffl and dfco: the readings of the test file, which is not part of the source;
\* the values stand for any
TestFlow == [k \in 1..TestLen |-> Frac(5 * k, 1)]
TestCo == [k \in 1..TestLen |-> 20000 * k]

\* a worker object and its thread: not created yet ("idle"), in its loop ("run"),
\* returned from run after finished.emit() ("finished"), or left run by an exception
\* ("crashed").  sent holds the readings emitted with newData, finished counts the
\* emissions of finished, passes counts the passes of the loop.
WorkerInit ==
    [pc |-> "idle", enableChk |-> FALSE, enableVar |-> TRUE, i |-> 0, count |-> 0,
     sent |-> <<>>, finished |-> 0, passes |-> 0]

Exit(w) == [w EXCEPT !.pc = "finished", !.finished = @ + 1]

Crash(w) == [w EXCEPT !.pc = "crashed"]

EmitReading(w, v) == [w EXCEPT !.sent = Append(@, v)]

\* FlowSensorWorker.run, one pass of its loop, the meter having answered rd: recv
\* raised (rd.ok false) or returned rd.text.  sendall is taken to succeed.
FlowWorkerRun(w, old, rd) ==
    IF ~w.enableVar THEN [w |-> Exit(w), old |-> old]
    ELSE IF ~w.enableChk
    THEN IF w.i >= TestLen THEN [w |-> Crash(w), old |-> old]
         ELSE [w |-> [EmitReading(w, TestFlow[w.i + 1]) EXCEPT !.i = @ + 1], old |-> old]
    ELSE LET c    == IF w.count < 1 THEN CountMax ELSE w.count
             m    == IF rd.ok THEN FindFloatLike(rd.text) ELSE None
             old1 == IF m = None THEN old ELSE DequeAppend(old, m[1], OldDataCap)
             p    == IF m = None THEN [ok |-> FALSE, val |-> Zero] ELSE ParseFloat(m[1])
             f    == ParseFloat(Last(old1))
         IN  IF p.ok
             THEN [w |-> [EmitReading(w, p.val) EXCEPT !.count = c - 1], old |-> old1]
             ELSE IF f.ok
             THEN [w |-> [EmitReading(w, f.val) EXCEPT !.count = c], old |-> old1]
             ELSE [w |-> [Crash(w) EXCEPT !.count = c], old |-> old1]

\* CoSensorWorker.run, one pass of its loop: readline or decode raised (rd.ok false)
\* or gave rd.text; rd.resetOk tells whether reset_input_buffer succeeds in this pass
CoWorkerRun(w, old, rd) ==
    IF ~w.enableVar THEN [w |-> Exit(w), old |-> old]
    ELSE IF ~w.enableChk
    THEN IF w.i >= TestLen THEN [w |-> Crash(w), old |-> old]
         ELSE [w |-> [EmitReading(w, TestCo[w.i + 1]) EXCEPT !.i = @ + 1], old |-> old]
    ELSE LET items == IF rd.ok THEN DigitRunsFrom(rd.text, 1) ELSE <<>>
         IN  IF Len(items) >= 2
             THEN LET newItem == DigitsVal(items[2]) * 10
                      w1      == EmitReading(w, newItem)
                      old1    == DequeAppend(old, newItem, OldDataCap)
                  IN  IF rd.resetOk THEN [w |-> w1, old |-> old1]
                      ELSE [w |-> Crash(EmitReading(w1, Last(old1))), old |-> old1]
             ELSE LET w1 == EmitReading(w, Last(old))
                  IN  IF rd.resetOk THEN [w |-> w1, old |-> old]
                      ELSE [w |-> Crash(w1), old |-> old]

\* whether the pass read a value: the text held a number that was converted
FlowReadGood(rd) ==
    /\ rd.ok
    /\ FindFloatLike(rd.text) # None
    /\ ParseFloat(FindFloatLike(rd.text)[1]).ok

CoReadGood(rd) == rd.ok /\ Len(DigitRunsFrom(rd.text, 1)) >= 2

\* what the flow meter may send in one recv: a reading, another, two integers
\* separated by a comma, an acknowledgement
FlowTexts == {<<"1", ".", "5">>, <<"2", ".", "5">>, <<"1", ",", "5">>, <<"O", "K">>}
\* what the CO2 meter may send in one line: filtered and raw value, one value only
CoTexts == {<<"1", " ", "2">>, <<"1", " ", "3">>, <<"Z">>}
\* the outcomes of a read: a text, or an exception (timeout, connection lost)
FlowReads ==
    {[ok |-> TRUE, text |-> t, resetOk |-> TRUE] : t \in FlowTexts}
        \cup {[ok |-> FALSE, text |-> <<>>, resetOk |-> TRUE]}
\* the same for the serial port, which once closed or unplugged also refuses
\* reset_input_buffer
CoReads ==
    {[ok |-> TRUE, text |-> t, resetOk |-> TRUE] : t \in CoTexts}
        \cup {[ok |-> FALSE, text |-> <<>>, resetOk |-> b] : b \in BOOLEAN}

\* the number of readings the flow worker asks the meter for in one request
BatchSize == 475
\* the numbers of readings that arrive in one recv
PerRecvs == {1, 2}

\* no worker yet; oldData of the two classes; the workers MainUI no longer holds;
\* whether the serial port MainUI holds (coCon) is open; observer: the number of
\* samples each worker had emitted when Disconnect was pressed, the flow meter (the
\* readings it still owes, how many arrive in one recv, the requests it got), the last value
\* each worker read, and the last pass of a loop
WorkersInit ==
    [flow |-> WorkerInit, co |-> WorkerInit,
     flowOld |-> <<ZeroText>>, coOld |-> <<0>>,
     flowGood |-> Zero, coGood |-> 0,
     orphans |-> <<>>,
     coOpen |-> FALSE, sentAtKill |-> <<0, 0>>,
     meter |-> [pending |-> 0, perRecv |-> 1, requests |-> 0],
     last |-> [index |-> -1, rd |-> [ok |-> TRUE, text |-> <<>>, resetOk |-> TRUE],
               pre |-> WorkerInit, read |-> FALSE]]

\* whether the thread of the worker is still running: in the loop of run, or in the
\* thread's event loop after run was left by an exception (finished was not emitted,
\* so quit was never called)
ThreadBusy(w) == w.pc \in {"run", "crashed"}

\* the worker MainUI holds for a channel: self.worker (0), self.worker1 (1)
CurrentWorker(ws, index) == IF index = 0 THEN ws.flow ELSE ws.co

\* runFlowSensor / runCoSensor: self.thread and self.worker (thread1, worker1) are
\* assigned a new QThread and a new worker, whatever they held; a worker still in
\* its loop is from then on referenced by nothing in MainUI.  chk: whether the
\* device answered (enableChk).
runSensor(ws, index, chk) ==
    LET cur  == CurrentWorker(ws, index)
        new  == [WorkerInit EXCEPT !.pc = "run", !.enableChk = chk]
        orph == IF cur.pc = "run"
                THEN Append(ws.orphans, [index |-> index, w |-> cur])
                ELSE ws.orphans
    IN  IF index = 0 THEN [ws EXCEPT !.flow = new, !.orphans = orph]
        ELSE [ws EXCEPT !.co = new, !.orphans = orph, !.coOpen = chk \/ @]

\* killFlowSensor / killCoSensor: enableVar of the worker MainUI holds is made
\* false, and killCoSensor closes the serial port (the socket is left open); before
\* the first Connect the attribute does not exist
killSensor(ws, index) ==
    IF CurrentWorker(ws, index).pc = "idle"
    THEN [ws |-> ws, exc |-> "AttributeError"]
    ELSE [ws |-> IF index = 0 THEN [ws EXCEPT !.flow.enableVar = FALSE]
                 ELSE [ws EXCEPT !.co.enableVar = FALSE, !.coOpen = FALSE],
          exc |-> "none"]

-----------------------------------------------------------------------------
(* Observers: they record what happened and take no part in the program *)

ObsInit ==
    [ samples     |-> 0,       \* samples delivered so far
      ui          |-> 0,       \* button presses so far
      resets      |-> 0,       \* resets so far
      flowSeen    |-> <<>>,    \* flow samples since the last reset: [n, trig]
      emitted     |-> <<>>,    \* breath rows logged since the last reset: [vol, at]
      coSeen      |-> <<>>,    \* CO2 samples since the last reset: [n, trig, el]
      lastIntegAt |-> 0,       \* when a CO2 sample was last above its trigger
      sentFlow    |-> <<>>,    \* values the flow worker has posted to the queue
      sentCo      |-> <<>> ]   \* values the CO2 worker has posted to the queue

LastInit ==
    [ op |-> "init", n |-> 0, text |-> <<>>, exc |-> "none", ratio |-> None,
      freshRatio |-> None, pre |-> MainUIInit(0) ]

\* the rows the handler added to the log
NewRows(before, after, name) ==
    IF name \notin DOMAIN after THEN <<>>
    ELSE IF name \in DOMAIN before
    THEN SubSeq(after[name], Len(before[name]) + 1, Len(after[name]))
    ELSE after[name]

\* the breath volumes among rows
RECURSIVE BreathVols(_)
BreathVols(rows) ==
    IF rows = <<>> THEN <<>>
    ELSE IF Head(rows)[6] # None
         THEN <<Head(rows)[6][1]>> \o BreathVols(Tail(rows))
         ELSE BreathVols(Tail(rows))

\* a MainUI constructed at xTime and given the configuration of self
FreshLike(self, xTime) ==
    LET f == MainUIInit(xTime)
        c == self.histCap
    IN  [f EXCEPT !.saveName = self.saveName, !.saving = self.saving,
                  !.floTrig = self.floTrig,
                  !.coTrig = self.coTrig, !.histCap = c,
                  !.flowX = Deque(@, c), !.flowY = Deque(@, c), !.coX = Deque(@, c),
                  !.coY = Deque(@, c), !.integX = Deque(@, c), !.integY = Deque(@, c),
                  !.veVco2X = Deque(@, c), !.veVco2Y = Deque(@, c),
                  !.veVco2Val = Deque(@, c)]

-----------------------------------------------------------------------------
(* Actions *)

Init ==
    /\ win = MainUIInit(0)
    /\ fs = SetupSave(<<>>, DefaultSave)
    /\ clock = 0
    /\ alive = TRUE
    /\ fresh = MainUIInit(0)
    /\ last = LastInit
    /\ obs = ObsInit
    /\ queue = <<>>
    /\ stack = <<>>
    /\ workers = WorkersInit

\* An exception that leaves a slot is printed by PyQt5, which then either goes on
\* with the event loop or aborts the application, depending on its version.
AfterSlot(exc) == IF exc = "none" THEN {TRUE} ELSE BOOLEAN

\* what the observer has recorded once dataUpdate(index, n) has run at time now on
\* the MainUI w and has logged breaths of the volumes vols
ObsAfterSample(o, w, index, n, now, vols) ==
    LET seen == Append(o.flowSeen, [n |-> n, trig |-> w.floTrig])
    IN  IF index = 0
        THEN [o EXCEPT !.samples = @ + 1,
                       !.flowSeen = seen,
                       !.emitted = @ \o [i \in 1..Len(vols) |->
                                            [vol |-> vols[i], at |-> Len(seen)]]]
        ELSE [o EXCEPT !.samples = @ + 1,
                       !.coSeen = Append(@, [n |-> n, trig |-> w.coTrig,
                                             el |-> now - o.lastIntegAt]),
                       !.lastIntegAt = IF n > w.coTrig THEN now ELSE @]

\* A worker's newData(index, n) is delivered to dataUpdate dt ms after the last
\* delivery and handled in one piece; okLog and okVol tell whether the log can be opened for the sample's row
\* and for a breath row.
DeliverIO(index, n, dt, max, okLog, okVol) ==
    /\ alive
    /\ obs.samples < max
    /\ LET now == clock + dt
           r   == dataUpdate(win, fs, index, n, now, okLog, okVol)
           rf  == dataUpdate(fresh, fs, index, n, now, okLog, okVol)
           vols == BreathVols(NewRows(fs, r.fs, win.saveName))
       IN  /\ win' = r.self
           /\ fs' = r.fs
           /\ clock' = now
           /\ alive' \in AfterSlot(r.exc)
           /\ fresh' = rf.self
           /\ last' = [op |-> IF index = 0 THEN "flow" ELSE "co", n |-> n, text |-> <<>>,
                       exc |-> r.exc, ratio |-> r.ratio, freshRatio |-> rf.ratio,
                       pre |-> win]
           /\ obs' = ObsAfterSample(obs, win, index, n, now, vols)
           /\ UNCHANGED <<queue, stack, workers>>

\* A delivery while the log can be written
Deliver(index, n, dt, max) == DeliverIO(index, n, dt, max, TRUE, TRUE)

\* A button handler runs: the clock is read as it stands.
Press(op, text, newWin, newFresh) ==
    /\ alive
    /\ obs.ui < MaxUi
    /\ win' = newWin
    /\ fresh' = newFresh
    /\ last' = [op |-> op, n |-> 0, text |-> text, exc |-> "none", ratio |-> None,
                freshRatio |-> None, pre |-> win]
    /\ obs' = IF op = "reset"
              THEN [obs EXCEPT !.ui = @ + 1, !.resets = @ + 1, !.flowSeen = <<>>,
                               !.emitted = <<>>, !.coSeen = <<>>]
              ELSE [obs EXCEPT !.ui = @ + 1]
    /\ UNCHANGED <<fs, clock, alive, queue, stack, workers>>

FlowSample == \E n \in FlowValsBoth, dt \in DeltasBoth : Deliver(0, n, dt, MaxSamples)

CoSample == \E n \in CoValsBoth, dt \in DeltasBoth : Deliver(1, n, dt, MaxSamples)

ResetAvg == Press("reset", <<>>, resetAvg(win), FreshLike(resetAvg(win), clock))

SetIntegPts ==
    \E text \in FloTrigTexts :
        Press("setIntegPts", text, setIntegPts(win, text), setIntegPts(fresh, text))

SetCoIntegPts ==
    \E text \in CoTrigTexts :
        Press("setCoIntegPts", text, setCoIntegPts(win, text), setCoIntegPts(fresh, text))

SetDataPts ==
    \E text \in DataPtsTexts :
        Press("setDataPts", text, setDataPts(win, text, clock),
              setDataPts(fresh, text, clock))

Next ==
    \/ FlowSample
    \/ CoSample
    \/ ResetAvg
    \/ SetIntegPts
    \/ SetCoIntegPts
    \/ SetDataPts

\* both sensors connected, all buttons in use
Spec == Init /\ [][Next]_vars

\* the flow meter alone
FlowOnlySample == \E n \in FlowVals, dt \in DeltasBoth : Deliver(0, n, dt, MaxFlowSamples)

NextFlow ==
    \/ FlowOnlySample
    \/ ResetAvg
    \/ SetIntegPts

SpecFlow == Init /\ [][NextFlow]_vars

\* the CO2 meter alone
CoOnlySample == \E n \in CoVals, dt \in Deltas : Deliver(1, n, dt, MaxCoSamples)

NextCo ==
    \/ CoOnlySample
    \/ ResetAvg
    \/ SetCoIntegPts

SpecCo == Init /\ [][NextCo]_vars

-----------------------------------------------------------------------------
(* The CO2 meter with the trigger set to zero or below it: readings of zero, of  *)
(* 1000 ppm and well above                                                      *)

TrigCoVals == {0, 1000, 50000}

TrigDeltas == {NominalMs, 100}

TrigTexts == {<<"0">>, <<"-", "1">>}

TrigCoSample == \E n \in TrigCoVals, dt \in TrigDeltas : Deliver(1, n, dt, MaxTrigSamples)

SetTrig ==
    \E text \in TrigTexts :
        Press("setCoIntegPts", text, setCoIntegPts(win, text), setCoIntegPts(fresh, text))

NextTrig ==
    \/ TrigCoSample
    \/ ResetAvg
    \/ SetTrig

SpecTrig == Init /\ [][NextTrig]_vars

-----------------------------------------------------------------------------
(* A long session of the flow meter: PrefilledBreaths breaths, then any samples *)

\* the k-th flow sample of the session: breath i is one sample of FloTrigInit + i
\* followed by one sample below the trigger
PrefillFlow(k) == IF k % 2 = 1 THEN FloTrigInit + (k + 1) \div 2 ELSE FloTrigInit - 5

\* the first 2 * PrefilledBreaths samples of the session
PrefillSample ==
    /\ obs.samples < 2 * PrefilledBreaths
    /\ Deliver(0, PrefillFlow(obs.samples + 1), NominalMs, 2 * PrefilledBreaths)

\* the samples after them
FullSample ==
    /\ obs.samples >= 2 * PrefilledBreaths
    /\ \E n \in FlowVals, dt \in DeltasBoth :
          Deliver(0, n, dt, 2 * PrefilledBreaths + MaxFullSamples)

\* Reset, pressed once the history is nearly full
LateResetAvg ==
    /\ obs.samples >= 2 * PrefilledBreaths
    /\ ResetAvg

NextFull ==
    \/ PrefillSample
    \/ FullSample
    \/ LateResetAvg

SpecFull == Init /\ [][NextFull]_vars

-----------------------------------------------------------------------------
(* A long breath: the flow stays at the trigger for LongBreath samples (25 s at *)
(* 20 samples per second), then any samples follow                              *)

LongPrefillSample ==
    /\ obs.samples < LongBreath
    /\ Deliver(0, FloTrigInit, NominalMs, LongBreath)

LongSample ==
    /\ obs.samples >= LongBreath
    /\ \E n \in FlowValsBoth, dt \in DeltasBoth :
          Deliver(0, n, dt, LongBreath + MaxLongSamples)

NextLong ==
    \/ LongPrefillSample
    \/ LongSample

SpecLong == Init /\ [][NextLong]_vars

-----------------------------------------------------------------------------
(* The two worker threads and the main thread.  newData is connected to the      *)
(* method dataUpdate of MainUI, which lives in the main thread, and is emitted   *)
(* by a worker moved to its own QThread: the call is posted to the event queue   *)
(* of the main thread, which runs it, like the handler of a click, when no other *)
(* handler is running.                                                           *)

\* a handler starting whatever else is running
CanStart_Reentrant(calls) == TRUE

\* the event loop takes the next event when the handler before it has returned
CanStart(calls) == calls = <<>>

\* the newest signal taken first
TakeSignal_Newest(q) == [e |-> Last(q), rest |-> SubSeq(q, 1, Len(q) - 1)]

\* posted events of one priority are delivered in the order they were posted
TakeSignal(q) == [e |-> Head(q), rest |-> Tail(q)]

\* a signal delivered only together with one of the other channel
Deliverable_Paired(q) ==
    (\E i \in 1..Len(q) : q[i].index = 0) /\ (\E i \in 1..Len(q) : q[i].index = 1)

\* the event loop has something to deliver as soon as one call is posted
Deliverable(q) == q # <<>>

\* the signals emitted so far
Emitted == obs.samples + Len(stack) + Len(queue)

\* a worker thread emits newData(index, n)
Emit(index, n) ==
    /\ Emitted < MaxQueueSamples
    /\ Len(queue) < MaxQueue
    /\ queue' = Append(queue, [index |-> index, n |-> n])
    /\ obs' = IF index = 0 THEN [obs EXCEPT !.sentFlow = Append(@, n)]
                           ELSE [obs EXCEPT !.sentCo = Append(@, n)]
    /\ UNCHANGED <<win, fs, clock, alive, fresh, last, stack, workers>>

FlowWorkerEmit == \E n \in FlowValsBoth : Emit(0, n)

CoWorkerEmit == \E n \in CoValsBoth : Emit(1, n)

\* the main thread enters dataUpdate for the oldest signal waiting and runs it up to
\* the write of the sample's row
BeginDataUpdate ==
    /\ alive
    /\ CanStart(stack)
    /\ Deliverable(queue)
    /\ \E dt \in DeltasBoth :
          LET e   == TakeSignal(queue).e
              now == clock + dt
              r   == dataUpdateLog(win, fs, e.index, e.n, now, TRUE)
          IN  /\ win' = r.self
              /\ fs' = r.fs
              /\ clock' = now
              /\ queue' = TakeSignal(queue).rest
              /\ stack' = <<[index |-> e.index, n |-> e.n, now |-> now, pre |-> win,
                             preFs |-> fs]>> \o stack
    /\ UNCHANGED <<alive, fresh, last, obs, workers>>

\* the main thread runs the innermost dataUpdate in progress to its end
FinishDataUpdate ==
    /\ alive
    /\ stack # <<>>
    /\ LET f  == Head(stack)
           r  == dataUpdateEngine(win, fs, f.index, f.n, f.now, TRUE)
           rf == dataUpdate(fresh, fs, f.index, f.n, f.now, TRUE, TRUE)
           vols == BreathVols(NewRows(f.preFs, r.fs, win.saveName))
       IN  /\ win' = r.self
           /\ fs' = r.fs
           /\ alive' \in AfterSlot(r.exc)
           /\ fresh' = rf.self
           /\ last' = [op |-> IF f.index = 0 THEN "flow" ELSE "co", n |-> f.n,
                       text |-> <<>>, exc |-> r.exc, ratio |-> r.ratio,
                       freshRatio |-> rf.ratio, pre |-> f.pre]
           /\ obs' = ObsAfterSample(obs, f.pre, f.index, f.n, f.now, vols)
           /\ stack' = Tail(stack)
    /\ UNCHANGED <<clock, queue, workers>>

\* the main thread runs the handler of a click
QueueResetAvg == CanStart(stack) /\ ResetAvg

QueueSetIntegPts == CanStart(stack) /\ SetIntegPts

NextQueue ==
    \/ FlowWorkerEmit
    \/ CoWorkerEmit
    \/ BeginDataUpdate
    \/ FinishDataUpdate
    \/ QueueResetAvg
    \/ QueueSetIntegPts

SpecQueue == Init /\ [][NextQueue]_vars

\* the steps that end a dataUpdate in progress: FinishDataUpdate, seen from the stack
HandlerReturns == alive /\ stack # <<>> /\ stack' = Tail(stack)

\* The same, with the main thread's event loop delivering what is posted and running
\* each handler to its end, and the CO2 worker's thread scheduled whenever it has
\* something to emit.  Nothing is required of the flow worker: it may stop emitting
\* at any point and for ever (recv blocking, device silent).
SpecStall ==
    /\ Init /\ [][NextQueue]_vars
    /\ WF_vars(BeginDataUpdate)
    /\ WF_stack(HandlerReturns)
    /\ WF_vars(CoWorkerEmit)

-----------------------------------------------------------------------------
(* Both sensors and the three configuration line edits, with anything typed *)

ConfigFlowSample ==
    \E n \in FlowValsBoth, dt \in DeltasBoth : Deliver(0, n, dt, MaxConfigSamples)

ConfigCoSample ==
    \E n \in CoValsBoth, dt \in DeltasBoth : Deliver(1, n, dt, MaxConfigSamples)

ConfigSetIntegPts ==
    \E text \in ConfigTrigTexts :
        Press("setIntegPts", text, setIntegPts(win, text), setIntegPts(fresh, text))

ConfigSetCoIntegPts ==
    \E text \in ConfigCoTrigTexts :
        Press("setCoIntegPts", text, setCoIntegPts(win, text), setCoIntegPts(fresh, text))

ConfigSetDataPts ==
    \E text \in ConfigDataPtsTexts :
        Press("setDataPts", text, setDataPts(win, text, clock),
              setDataPts(fresh, text, clock))

NextConfig ==
    \/ ConfigFlowSample
    \/ ConfigCoSample
    \/ ConfigSetIntegPts
    \/ ConfigSetCoIntegPts
    \/ ConfigSetDataPts

SpecConfig == Init /\ [][NextConfig]_vars

-----------------------------------------------------------------------------
(* Both sensors and the Save and Stop buttons *)

\* Save or Stop runs; r and rf are its outcome on the MainUI and on the observer
PressSave(op, name, r, rf) ==
    /\ alive
    /\ obs.ui < MaxSaveUi
    /\ win' = r.self
    /\ fs' = r.fs
    /\ fresh' = rf.self
    /\ last' = [op |-> op, n |-> 0, text |-> <<name>>, exc |-> "none", ratio |-> None,
                freshRatio |-> None, pre |-> win]
    /\ obs' = [obs EXCEPT !.ui = @ + 1]
    /\ UNCHANGED <<clock, alive, queue, stack, workers>>

\* Save can be clicked while it is enabled
NewSave ==
    /\ ~win.saving
    /\ \E name \in SaveNames :
          PressSave("newSave", name, newSave(win, fs, name, CanOpen(name)),
                    newSave(fresh, fs, name, CanOpen(name)))

\* Stop can be clicked while it is enabled
StopSave ==
    /\ win.saving
    /\ PressSave("stopSave", DefaultSave, stopSave(win, fs), stopSave(fresh, fs))

\* a sample arrives; the log can be opened unless its name is empty
SaveFlowSample ==
    \E n \in FlowValsBoth, dt \in DeltasBoth :
        DeliverIO(0, n, dt, MaxSaveSamples, CanOpen(win.saveName), CanOpen(win.saveName))

SaveCoSample ==
    \E n \in CoValsBoth, dt \in DeltasBoth :
        DeliverIO(1, n, dt, MaxSaveSamples, CanOpen(win.saveName), TRUE)

NextSave ==
    \/ SaveFlowSample
    \/ SaveCoSample
    \/ NewSave
    \/ StopSave

SpecSave == Init /\ [][NextSave]_vars

-----------------------------------------------------------------------------
(* Both sensors, with a log file that cannot always be opened (locked by another *)
(* program, removed medium, full disk)                                          *)

SinkFlowSample ==
    \E n \in FlowValsBoth, dt \in DeltasBoth, okLog \in BOOLEAN, okVol \in BOOLEAN :
        DeliverIO(0, n, dt, MaxSinkSamples, okLog, okVol)

SinkCoSample ==
    \E n \in CoValsBoth, dt \in DeltasBoth, okLog \in BOOLEAN :
        DeliverIO(1, n, dt, MaxSinkSamples, okLog, TRUE)

NextSink ==
    \/ SinkFlowSample
    \/ SinkCoSample
    \/ ResetAvg

SpecSink == Init /\ [][NextSink]_vars

-----------------------------------------------------------------------------
(* Two runs fed the same samples: win, and fresh standing for a second MainUI   *)
(* constructed at the same time.  The user sets the number of points of the one *)
(* or of the other at any time; nothing else is pressed.                        *)

TwinFlowSample == \E n \in FlowValsBoth, dt \in DeltasBoth : Deliver(0, n, dt, MaxTwinSamples)

TwinCoSample == \E n \in CoValsBoth, dt \in DeltasBoth : Deliver(1, n, dt, MaxTwinSamples)

\* setDataPts runs in the one run or in the other
TwinPress(newWin, newFresh, text) ==
    /\ alive
    /\ obs.ui < MaxTwinUi
    /\ win' = newWin
    /\ fresh' = newFresh
    /\ last' = [op |-> "setDataPts", n |-> 0, text |-> text, exc |-> "none",
                ratio |-> None, freshRatio |-> None, pre |-> win]
    /\ obs' = [obs EXCEPT !.ui = @ + 1]
    /\ UNCHANGED <<fs, clock, alive, queue, stack, workers>>

SetDataPtsHere ==
    \E text \in TwinDataPtsTexts : TwinPress(setDataPts(win, text, clock), fresh, text)

SetDataPtsThere ==
    \E text \in TwinDataPtsTexts : TwinPress(win, setDataPts(fresh, text, clock), text)

NextTwin ==
    \/ TwinFlowSample
    \/ TwinCoSample
    \/ SetDataPtsHere
    \/ SetDataPtsThere

SpecTwin == Init /\ [][NextTwin]_vars

-----------------------------------------------------------------------------
(* The two workers alone: started once each, with or without a device, reading  *)
(* or simulating, and stopped by the user at any time                           *)

app == <<win, fs, clock, alive, fresh, last, obs, queue, stack>>

\* runFlowSensor: a worker is created and its thread started; enableChk is made true
\* when the meter has answered
RunFlowSensor ==
    /\ workers.flow.pc = "idle"
    /\ \E chk \in BOOLEAN :
          workers' = [workers EXCEPT !.flow = [WorkerInit EXCEPT !.pc = "run",
                                                                 !.enableChk = chk]]
    /\ UNCHANGED app

\* runCoSensor
RunCoSensor ==
    /\ workers.co.pc = "idle"
    /\ \E chk \in BOOLEAN :
          workers' = [workers EXCEPT !.co = [WorkerInit EXCEPT !.pc = "run",
                                                               !.enableChk = chk]]
    /\ UNCHANGED app

\* killFlowSensor, once self.worker exists
KillFlowSensor ==
    /\ workers.flow.pc # "idle"
    /\ workers.flow.enableVar
    /\ workers' = [workers EXCEPT !.flow.enableVar = FALSE]
    /\ UNCHANGED app

\* killCoSensor, once self.worker1 exists; the port it closes is drawn with each read
KillCoSensor ==
    /\ workers.co.pc # "idle"
    /\ workers.co.enableVar
    /\ workers' = [workers EXCEPT !.co.enableVar = FALSE]
    /\ UNCHANGED app

\* the flow worker's thread makes one pass of its loop
FlowWorkerStep ==
    /\ workers.flow.pc = "run"
    /\ workers.flow.passes < MaxWorkerSteps
    /\ \E rd \in FlowReads :
          LET w == workers.flow
              r == FlowWorkerRun(w, workers.flowOld, rd)
              read == w.enableVar /\ w.enableChk
          IN  workers' = [workers EXCEPT
                  !.flow = [r.w EXCEPT !.passes = @ + 1],
                  !.flowOld = r.old,
                  !.flowGood = IF read /\ FlowReadGood(rd)
                               THEN ParseFloat(FindFloatLike(rd.text)[1]).val ELSE @,
                  !.last = [index |-> 0, rd |-> rd, pre |-> w, read |-> read]]
    /\ UNCHANGED app

\* the CO2 worker's thread makes one pass of its loop
CoWorkerStep ==
    /\ workers.co.pc = "run"
    /\ workers.co.passes < MaxWorkerSteps
    /\ \E rd \in CoReads :
          LET w == workers.co
              r == CoWorkerRun(w, workers.coOld, rd)
              read == w.enableVar /\ w.enableChk
          IN  workers' = [workers EXCEPT
                  !.co = [r.w EXCEPT !.passes = @ + 1],
                  !.coOld = r.old,
                  !.coGood = IF read /\ CoReadGood(rd)
                             THEN DigitsVal(DigitRunsFrom(rd.text, 1)[2]) * 10 ELSE @,
                  !.last = [index |-> 1, rd |-> rd, pre |-> w, read |-> read]]
    /\ UNCHANGED app

NextWorker ==
    \/ RunFlowSensor
    \/ RunCoSensor
    \/ KillFlowSensor
    \/ KillCoSensor
    \/ FlowWorkerStep
    \/ CoWorkerStep

SpecWorker == Init /\ [][NextWorker]_vars

-----------------------------------------------------------------------------
(* The Connect and Disconnect buttons, pressed in any order and any number of   *)
(* times, and the workers they start and stop                                   *)

\* a handler of a Connect or Disconnect button runs
PressConnect(op, index, newWorkers, exc, mayAbort) ==
    /\ alive
    /\ obs.ui < MaxConnectUi
    /\ workers' = newWorkers
    /\ alive' \in (IF mayAbort THEN BOOLEAN ELSE AfterSlot(exc))
    /\ last' = [op |-> op, n |-> index, text |-> <<>>, exc |-> exc, ratio |-> None,
                freshRatio |-> None, pre |-> win]
    /\ obs' = [obs EXCEPT !.ui = @ + 1]
    /\ UNCHANGED <<win, fs, clock, fresh, queue, stack>>

\* Connect: the QThread that self.thread held is given up; when it is still
\* running, Qt either aborts ("QThread: Destroyed while thread is still running")
\* or, the object being kept alive, lets it run on
Connect(index) ==
    \E chk \in BOOLEAN :
        PressConnect("runSensor", index, runSensor(workers, index, chk), "none",
                     ThreadBusy(CurrentWorker(workers, index)))

\* Disconnect
Disconnect(index) ==
    LET r == killSensor(workers, index)
    IN  PressConnect("killSensor", index, r.ws, r.exc, FALSE)

ConnectFlow == Connect(0)

ConnectCo == Connect(1)

DisconnectFlow == Disconnect(0)

DisconnectCo == Disconnect(1)

\* what the meters answer in a run of SpecConnect: a reading, or nothing in time
ConnectFlowReads ==
    {rd \in FlowReads : rd.text \in {<<"1", ".", "5">>, <<>>}}

ConnectCoReads ==
    {rd \in CoReads : rd.text \in {<<"1", " ", "2">>, <<>>} /\ rd.resetOk}

\* one pass of the loop of a worker of a channel: the worker after it and oldData
\* of its class
WorkerPass(index, w, rd) ==
    LET r == IF index = 0 THEN FlowWorkerRun(w, workers.flowOld, rd)
             ELSE CoWorkerRun(w, workers.coOld, rd)
    IN  [w |-> [r.w EXCEPT !.passes = @ + 1], old |-> r.old]

PassReads(index) == IF index = 0 THEN ConnectFlowReads ELSE ConnectCoReads

WithOld(ws, index, old) ==
    IF index = 0 THEN [ws EXCEPT !.flowOld = old] ELSE [ws EXCEPT !.coOld = old]

\* the worker MainUI holds for a channel makes one pass of its loop
CurrentStep(index) ==
    /\ alive
    /\ CurrentWorker(workers, index).pc = "run"
    /\ CurrentWorker(workers, index).passes < MaxConnectSteps
    /\ \E rd \in PassReads(index) :
          LET r == WorkerPass(index, CurrentWorker(workers, index), rd)
          IN  workers' = WithOld(IF index = 0 THEN [workers EXCEPT !.flow = r.w]
                                 ELSE [workers EXCEPT !.co = r.w], index, r.old)
    /\ UNCHANGED app

CurrentFlowStep == CurrentStep(0)

CurrentCoStep == CurrentStep(1)

\* a worker MainUI no longer holds makes one pass of its loop
OrphanStep ==
    /\ alive
    /\ \E k \in 1..Len(workers.orphans) :
          LET o == workers.orphans[k]
          IN  /\ o.w.pc = "run"
              /\ o.w.passes < MaxConnectSteps
              /\ \E rd \in PassReads(o.index) :
                    LET r == WorkerPass(o.index, o.w, rd)
                    IN  workers' = WithOld([workers EXCEPT !.orphans[k].w = r.w],
                                           o.index, r.old)
    /\ UNCHANGED app

NextConnect ==
    \/ ConnectFlow
    \/ ConnectCo
    \/ DisconnectFlow
    \/ DisconnectCo
    \/ CurrentFlowStep
    \/ CurrentCoStep
    \/ OrphanStep

SpecConnect == Init /\ [][NextConnect]_vars

-----------------------------------------------------------------------------
(* Disconnect while a connected worker is anywhere in its loop.  A pass of the  *)
(* loop is taken in two steps, the test of enableVar at its top and the body,   *)
(* so that the Disconnect handler of the main thread can run between them.      *)
(* Each channel is connected once, so the port MainUI holds is the worker's.    *)

\* the top of the loop: "if (self.enableVar == False): break", then the end of run
LoopTop(w) == IF ~w.enableVar THEN Exit(w) ELSE [w EXCEPT !.pc = "read"]

\* the body of the loop, entered with enableVar true whatever it is by now
LoopBody(index, w, old, rd) ==
    LET r == IF index = 0 THEN FlowWorkerRun([w EXCEPT !.enableVar = TRUE], old, rd)
             ELSE CoWorkerRun([w EXCEPT !.enableVar = TRUE], old, rd)
    IN  [w |-> [r.w EXCEPT !.enableVar = w.enableVar,
                           !.pc = IF r.w.pc = "crashed" THEN "crashed" ELSE "run",
                           !.passes = @ + 1],
         old |-> r.old]

\* what a read gives: the socket is never closed by killFlowSensor, recv returns a
\* reading or times out; the serial port gives a line or times out while open, and
\* once closed refuses both readline and reset_input_buffer
KillReads(index) ==
    IF index = 0 THEN ConnectFlowReads
    ELSE IF workers.coOpen THEN ConnectCoReads
    ELSE {rd \in CoReads : ~rd.ok /\ ~rd.resetOk}

\* Connect, the device answering
Start(index) ==
    /\ CurrentWorker(workers, index).pc = "idle"
    /\ workers' = runSensor(workers, index, TRUE)
    /\ UNCHANGED app

StartFlow == Start(0)

StartCo == Start(1)

\* Disconnect, the worker being at the top of its loop or in its body
Stop(index) ==
    /\ CurrentWorker(workers, index).pc \in {"run", "read"}
    /\ CurrentWorker(workers, index).enableVar
    /\ workers' = [killSensor(workers, index).ws EXCEPT
                      !.sentAtKill[index + 1] = Len(CurrentWorker(workers, index).sent)]
    /\ UNCHANGED app

StopFlow == Stop(0)

StopCo == Stop(1)

\* the worker's thread tests enableVar
AtLoopTop(index) ==
    /\ CurrentWorker(workers, index).pc = "run"
    /\ \/ CurrentWorker(workers, index).passes < MaxKillSteps
       \/ ~CurrentWorker(workers, index).enableVar
    /\ workers' = IF index = 0 THEN [workers EXCEPT !.flow = LoopTop(@)]
                  ELSE [workers EXCEPT !.co = LoopTop(@)]
    /\ UNCHANGED app

FlowLoopTop == AtLoopTop(0)

CoLoopTop == AtLoopTop(1)

\* the worker's thread runs the body of its loop
InLoopBody(index) ==
    /\ CurrentWorker(workers, index).pc = "read"
    /\ \E rd \in KillReads(index) :
          LET r == LoopBody(index, CurrentWorker(workers, index),
                            IF index = 0 THEN workers.flowOld ELSE workers.coOld, rd)
          IN  workers' = WithOld(IF index = 0 THEN [workers EXCEPT !.flow = r.w]
                                 ELSE [workers EXCEPT !.co = r.w], index, r.old)
    /\ UNCHANGED app

FlowLoopBody == InLoopBody(0)

CoLoopBody == InLoopBody(1)

NextKill ==
    \/ StartFlow
    \/ StartCo
    \/ StopFlow
    \/ StopCo
    \/ FlowLoopTop
    \/ CoLoopTop
    \/ FlowLoopBody
    \/ CoLoopBody

\* a thread that can take a step takes it
SpecKill ==
    /\ Init
    /\ [][NextKill]_vars
    /\ WF_workers(FlowLoopTop)
    /\ WF_workers(FlowLoopBody)
    /\ WF_workers(CoLoopTop)
    /\ WF_workers(CoLoopBody)

-----------------------------------------------------------------------------
(* Breath segmentation: C1, C2, C3 *)

\* a recorded flow sample was at/above the trigger in effect when it was processed
WasAbove(e) == e.n >= e.trig

\* below the trigger one or more times, then at/above it one or more times, then
\* below it again, under one and the same trigger
UpOnceDownOnce(seq) ==
    /\ Len(seq) >= 3
    /\ \A k \in 1..Len(seq) : seq[k].trig = seq[1].trig
    /\ \E i \in 1..(Len(seq) - 2) : \E j \in (i + 1)..(Len(seq) - 1) :
          \A k \in 1..Len(seq) : WasAbove(seq[k]) <=> (i < k /\ k <= j)

\* the sum of value*(5/6000) over the samples at/above the trigger, in 1/6000 L
RECURSIVE SumAbove(_)
SumAbove(seq) ==
    IF seq = <<>> THEN 0
    ELSE IF Len(seq) = 1 THEN (IF WasAbove(seq[1]) THEN seq[1].n * 5 ELSE 0)
    ELSE LET h == Len(seq) \div 2
         IN  SumAbove(SubSeq(seq, 1, h)) + SumAbove(SubSeq(seq, h + 1, Len(seq)))

\* C1: since the last reset (or the start), when the flow samples went from below the
\* trigger to at/above it exactly once and back below, under an unchanged trigger,
\* exactly one breath has been emitted and its volume is the sum of value*(5/6000)
\* over the samples at/above the trigger, each counted once.
C1_OneBreathWithSum ==
    UpOnceDownOnce(obs.flowSeen) =>
        /\ Len(obs.emitted) = 1
        /\ obs.emitted[1].vol = SumAbove(obs.flowSeen)

\* the segmentation and aggregator state of a MainUI
SegState(w) ==
    <<w.volFlag, w.curVol, w.volBreathsQ, w.label_vol_cur, w.label_vol_avg, w.maxCo2Val>>

\* C2: after a flow sample has been handled, volFlag is true exactly when the sample
\* was >= the trigger in effect; a sample below the trigger that arrives while no
\* breath is open changes no segmentation or aggregator state.  (volFlag is one
\* boolean and curVol one buffer: there is never a second open breath.)
C2_OpenIffAtOrAbove ==
    last.op = "flow" =>
        /\ win.volFlag = (last.n >= last.pre.floTrig)
        /\ (~last.pre.volFlag /\ last.n < last.pre.floTrig)
              => SegState(win) = SegState(last.pre)

\* C2's case: a sample exactly equal to the trigger has opened a breath
C2_Witness ==
    /\ last.op = "flow"
    /\ last.n = last.pre.floTrig
    /\ ~last.pre.volFlag
    /\ win.volFlag

\* the maximal runs of at/above-trigger samples that a below-trigger sample has ended
ClosedRuns(seq) ==
    Cardinality({k \in 2..Len(seq) : WasAbove(seq[k - 1]) /\ ~WasAbove(seq[k])})

\* the last three samples are below, at/above, below
IsolatedLast(seq) ==
    /\ Len(seq) >= 3
    /\ ~WasAbove(seq[Len(seq) - 2])
    /\ WasAbove(seq[Len(seq) - 1])
    /\ ~WasAbove(seq[Len(seq)])

\* the first half of C3: as many breaths were emitted since the last reset as runs
\* of at/above-trigger samples were ended by a below-trigger sample
BreathsAreClosedRuns == Len(obs.emitted) = ClosedRuns(obs.flowSeen)

\* C3: since the last reset, the number of breaths emitted is the number of maximal
\* runs of at/above-trigger samples followed by a below-trigger sample, and a single
\* at/above-trigger sample between two below-trigger samples yields one breath,
\* emitted by the sample that follows it and holding that one sample's contribution.
C3_BreathPerRun ==
    /\ BreathsAreClosedRuns
    /\ IsolatedLast(obs.flowSeen) =>
          /\ Last(obs.emitted).at = Len(obs.flowSeen)
          /\ Last(obs.emitted).vol = obs.flowSeen[Len(obs.flowSeen) - 1].n * 5

-----------------------------------------------------------------------------
(* CO2 integration: C4 .. C8 *)

\* the integration state of a MainUI
IntegState(w) == <<w.integratedCo, w.integratedCoPts, w.integratedCoTime>>

\* C4: a CO2 sample <= the trigger (equal included) records a ratio of 0 for that
\* sample (appended to the ratio history, whose oldest entry leaves when it is full)
\* and leaves the integral, the point count and the integrated timestamps as they
\* were (so any number of such samples leaves them the same).
C4_BelowTriggerIsNoOp ==
    (last.op = "co" /\ last.n <= last.pre.coTrig) =>
        /\ last.exc = "none"
        /\ last.ratio = Some(Zero)
        /\ win.veVco2Val = DequeAppend(last.pre.veVco2Val, Zero, last.pre.histCap)
        /\ IntegState(win) = IntegState(last.pre)

\* C4's case: a sample exactly at the trigger, after samples have been integrated
C4_Witness ==
    /\ last.op = "co"
    /\ last.n = last.pre.coTrig
    /\ last.pre.integratedCoPts > 0
    /\ win.integratedCo > 0

\* the time between the last CO2 sample and the CO2 sample integrated before it
\* (the construction, when there is none), as the observer measured it
LastElapsed == Last(obs.coSeen).el

\* the interval of the claim: the elapsed time inside [0.04 s, 0.06 s], else 0.05 s
ClaimedInterval(el) == IF 40 <= el /\ el <= 60 THEN el ELSE 50

\* C5: a CO2 sample above the trigger makes the integral grow by (value/1e6) times
\* the elapsed time since the previous integrated sample when that lies in
\* [0.04 s, 0.06 s], bounds included, and by (value/1e6) times 0.05 s otherwise.
C5_EffectiveInterval ==
    (last.op = "co" /\ last.n > last.pre.coTrig) =>
        win.integratedCo = last.pre.integratedCo + last.n * ClaimedInterval(LastElapsed)

\* C5's case: 0.10 s after the previous integrated sample, integrated as 0.05 s
C5_Witness ==
    /\ last.op = "co"
    /\ last.n > last.pre.coTrig
    /\ last.n > 0
    /\ last.pre.integratedCoPts > 0
    /\ LastElapsed = 100
    /\ win.integratedCo = last.pre.integratedCo + last.n * 50

\* since the last reset (or the start) every CO2 sample had the same value, was above
\* its trigger, and came 0.05 s after the one before it; the last one produced a ratio
ConstantRun ==
    /\ last.op = "co"
    /\ last.exc = "none"
    /\ obs.coSeen # <<>>
    /\ \A k \in 1..Len(obs.coSeen) :
          /\ obs.coSeen[k].n = last.n
          /\ obs.coSeen[k].n > obs.coSeen[k].trig
          /\ k > 1 => obs.coSeen[k].el = 50

AboveCount(seq) == Cardinality({k \in 1..Len(seq) : seq[k].n > seq[k].trig})

\* C7: the point count is the number of above-trigger CO2 samples handled since the
\* last resetAvg (or the start); a CO2 sample at or below the trigger, a flow sample
\* and a configuration update leave the integral and the count as they were, no
\* handler but resetAvg decreases them, and resetAvg sets both to zero.
C7_OnlyResetZeroes ==
    /\ win.integratedCoPts = AboveCount(obs.coSeen)
    /\ last.op = "reset" => (win.integratedCo = 0 /\ win.integratedCoPts = 0)
    /\ last.op \in {"co", "flow", "setIntegPts", "setCoIntegPts", "setDataPts"} =>
          /\ win.integratedCo >= last.pre.integratedCo
          /\ win.integratedCoPts >= last.pre.integratedCoPts
    /\ (last.op \in {"flow", "setIntegPts", "setCoIntegPts", "setDataPts"}
          \/ (last.op = "co" /\ last.n <= last.pre.coTrig)) =>
          /\ win.integratedCo = last.pre.integratedCo
          /\ win.integratedCoPts = last.pre.integratedCoPts

\* C7's case: the reading has dropped to the trigger after a sample was integrated
C7_Witness ==
    /\ last.op = "co"
    /\ last.n <= last.pre.coTrig
    /\ Len(obs.coSeen) >= 2
    /\ win.integratedCoPts >= 1
    /\ win.integratedCoPts = last.pre.integratedCoPts

\* C8: when a CO2 sample has been integrated and the integral is zero afterwards,
\* the handler ends without an exception and the ratio history has received exactly
\* one entry for the sample, which is not the ratio 0.
C8_ZeroIntegralIsHandled ==
    (last.op = "co" /\ last.n > last.pre.coTrig /\ win.integratedCo = 0) =>
        /\ last.exc = "none"
        /\ last.ratio # None
        /\ last.ratio # Some(Zero)
        /\ Len(win.veVco2Val) = Len(last.pre.veVco2Val) + 1

-----------------------------------------------------------------------------
(* Reset: C9, C10 *)

\* C9: once resetAvg has run, the outputs (the emitted breath volumes, the displayed
\* average, the ratio of each sample) are those of a MainUI constructed at the reset
\* and given the same configuration and the same samples at the same times.
C9_ResetIsFresh ==
    obs.resets > 0 =>
        /\ win.volBreathsQ = fresh.volBreathsQ
        /\ win.label_vol_avg = fresh.label_vol_avg
        /\ last.ratio = last.freshRatio

\* C10: resetAvg zeroes the integral and the point count, empties the breath-volume
\* history and the peak, and leaves the ratio history, the raw flow and CO2 histories,
\* both triggers, the history capacity and the save-file name as they were.
C10_ResetFrame ==
    last.op = "reset" =>
        /\ win.integratedCo = 0
        /\ win.integratedCoPts = 0
        /\ win.volBreathsQ = <<>>
        /\ win.maxCo2Val = 0
        /\ win.veVco2Val = last.pre.veVco2Val
        /\ win.flowX = last.pre.flowX
        /\ win.flowY = last.pre.flowY
        /\ win.coX = last.pre.coX
        /\ win.coY = last.pre.coY
        /\ win.floTrig = last.pre.floTrig
        /\ win.coTrig = last.pre.coTrig
        /\ win.histCap = last.pre.histCap
        /\ win.saveName = last.pre.saveName

\* C10's case: a reset after a breath has closed and a CO2 sample was integrated
C10_Witness ==
    /\ last.op = "reset"
    /\ last.pre.integratedCoPts > 0
    /\ last.pre.integratedCo > 0
    /\ last.pre.volBreathsQ # <<>>
    /\ Len(win.veVco2Val) > 1
    /\ Len(win.flowY) > 1

-----------------------------------------------------------------------------
(* Session aggregator: C11, C12, C13 *)

\* label is the number of thousandths of a litre nearest to the arithmetic mean of
\* the volumes q, which are in 1/6000 L
IsMeanOf(label, q) ==
    2 * Abs(label * 6 * Len(q) - SeqSum(q)) <= 6 * Len(q)

\* C11: in every state the displayed average breath volume is 0 when the
\* breath-volume history is empty (at the start and right after resetAvg) and is the
\* arithmetic mean of the retained volumes (to the three decimals displayed) when it
\* is not; the mean is never computed over an empty history.
C11_AverageIsMean ==
    /\ last.op = "flow" => last.exc = "none"
    /\ IF win.volBreathsQ = <<>>
       THEN win.label_vol_avg = 0
       ELSE IsMeanOf(win.label_vol_avg, win.volBreathsQ)

\* C11's case: two breaths of different volumes are retained and averaged
C11_Witness ==
    /\ Len(win.volBreathsQ) = 2
    /\ win.volBreathsQ[1] # win.volBreathsQ[2]
    /\ win.label_vol_avg > 0
    /\ last.op = "flow"

\* the last k items of seq
LastN(seq, k) == IF Len(seq) <= k THEN seq ELSE SubSeq(seq, Len(seq) - k + 1, Len(seq))

\* the volumes of the breaths logged since the last reset, oldest first
EmittedVols == [i \in 1..Len(obs.emitted) |-> obs.emitted[i].vol]

\* C12: the breath-volume history never holds more than 100 entries and always is
\* the most recent min(k, 100) of the k breath volumes closed since the last
\* resetAvg (or the start), in arrival order: at 100 entries the oldest one leaves
\* and the new one is appended.
C12_BoundedFifo ==
    /\ Len(win.volBreathsQ) <= 100
    /\ win.volBreathsQ = LastN(EmittedVols, 100)

\* C12's case: the 101st breath since the start has closed, the first has left
C12_Witness ==
    /\ Len(obs.emitted) = 101
    /\ Len(win.volBreathsQ) = 100
    /\ win.volBreathsQ[1] = obs.emitted[2].vol
    /\ win.volBreathsQ[1] # obs.emitted[1].vol
    /\ Last(win.volBreathsQ) = obs.emitted[101].vol

\* the largest CO2 reading among seq, 0 when there is none
RECURSIVE PeakOf(_)
PeakOf(seq) ==
    IF seq = <<>> THEN 0
    ELSE LET m == PeakOf(Tail(seq)) IN IF Head(seq).n > m THEN Head(seq).n ELSE m

\* C13: the session peak CO2 value is the largest CO2 value handled since the last
\* resetAvg (or the start); no handler but resetAvg makes it smaller.
C13_PeakIsMax ==
    /\ win.maxCo2Val = PeakOf(obs.coSeen)
    /\ last.op # "reset" => win.maxCo2Val >= last.pre.maxCo2Val

-----------------------------------------------------------------------------
(* The log: C14 .. C17 *)

\* the state of the two engines of a MainUI
EngineState(w) == <<SegState(w), IntegState(w), w.veVco2Val>>

\* what the last sample handler would have left, had every write succeeded
HadWritesSucceeded ==
    dataUpdate(last.pre, fs, IF last.op = "flow" THEN 0 ELSE 1, last.n, clock,
               TRUE, TRUE).self

\* C14: when the log cannot be written while a sample is handled, the handler still
\* runs the engine for that sample (volBreath for a flow sample, veVco2 for a CO2
\* sample): the engine state afterwards is what it would be had the write succeeded,
\* and the application goes on handling samples.
C14_WriteFailureIsHarmless ==
    (last.op \in {"flow", "co"} /\ last.exc = "OSError") =>
        /\ EngineState(win) = EngineState(HadWritesSucceeded)
        /\ alive

\* a is an initial part of b
IsPrefix(a, b) == Len(a) <= Len(b) /\ SubSeq(b, 1, Len(a)) = a

\* C15: the log is append-only: no step of the program (a sample, newSave, stopSave)
\* removes or overwrites a row written before; the content of each log file is a
\* prefix of its content after the step.
C15_AppendOnly ==
    [][\A f \in DOMAIN fs : f \in DOMAIN fs' /\ IsPrefix(fs[f], fs'[f])]_vars

\* the last flow sample handled closed a breath: it was below its trigger and the
\* flow sample before it, with no reset in between, was at or above its trigger
BreathClosedNow ==
    /\ last.op = "flow"
    /\ Len(obs.flowSeen) >= 2
    /\ WasAbove(obs.flowSeen[Len(obs.flowSeen) - 1])
    /\ ~WasAbove(Last(obs.flowSeen))

\* C16: since the last reset there are as many entries in the breath-volume history
\* and as many breath rows in the log as breaths have closed, the i-th row carries
\* the volume of the i-th entry, and the handler of a sample that closes a breath
\* ends with the row of that breath (the time of the close, the volume appended)
\* as the last row of the log; no other handler adds an entry or a breath row.
C16_BreathOnceToBoth ==
    /\ Len(win.volBreathsQ) = ClosedRuns(obs.flowSeen)
    /\ Len(obs.emitted) = ClosedRuns(obs.flowSeen)
    /\ \A i \in 1..Len(obs.emitted) : obs.emitted[i].vol = win.volBreathsQ[i]
    /\ BreathClosedNow =>
          /\ Len(win.volBreathsQ) = Len(last.pre.volBreathsQ) + 1
          /\ Last(fs[win.saveName]) =
                <<None, None, None, None, Some(clock), Some(Last(win.volBreathsQ)),
                  None, None, None, None>>
    /\ (last.op # "reset" /\ ~BreathClosedNow) => win.volBreathsQ = last.pre.volBreathsQ

\* C16's case: the second breath since the start has closed and has been logged
C16_Witness ==
    /\ BreathClosedNow
    /\ Len(win.volBreathsQ) = 2
    /\ Len(obs.emitted) = 2
    /\ obs.emitted[2].vol = win.volBreathsQ[2]

\* the last handler integrated a CO2 sample and computed its ratio
RatioComputed ==
    /\ last.op = "co"
    /\ last.n > last.pre.coTrig
    /\ last.ratio # None

\* the log in use holds, after its header, a row carrying the time of the last
\* handler and the ratio it computed in the ve_over_vco2 fields
RatioLogged ==
    \E i \in 2..Len(fs[win.saveName]) :
        /\ fs[win.saveName][i][7] = Some(clock)
        /\ fs[win.saveName][i][8] = last.ratio

\* the log in use holds, after its header, a row carrying the time of the last
\* handler and the peak CO2 value in the peak fields
PeakLogged ==
    \E i \in 2..Len(fs[win.saveName]) :
        /\ fs[win.saveName][i][9] = Some(clock)
        /\ fs[win.saveName][i][10] = Some(win.maxCo2Val)

\* C17: every derived per-sample metric reaches the log: when the handler of a CO2
\* sample above the trigger has computed the ratio, a row carrying the ratio and
\* its timestamp is in the log, and when it has changed the peak CO2 value, a row
\* carrying the peak is.
C17_MetricsReachLog ==
    /\ RatioComputed => RatioLogged
    /\ (last.op = "co" /\ win.maxCo2Val # last.pre.maxCo2Val) => PeakLogged

-----------------------------------------------------------------------------
(* Configuration: C18, C19 *)

\* text is an optionally signed, non-empty run of decimal digits
IsNumeral(text) ==
    /\ text # <<>>
    /\ \A i \in 1..Len(text) :
          \/ text[i] \in {"0", "1", "2", "3", "4", "5", "6", "7", "8", "9"}
          \/ i = 1 /\ text[i] \in {"-", "+"} /\ Len(text) > 1

\* the last handler was a configuration update given an input to be rejected:
\* nothing, no number, or (for the number of points) a negative number
RejectedConfig ==
    /\ last.op \in {"setIntegPts", "setCoIntegPts", "setDataPts"}
    /\ \/ ~IsNumeral(last.text)
       \/ last.op = "setDataPts" /\ last.text[1] = "-"

\* C18: a configuration update whose input is empty, is no number or (setDataPts)
\* is a negative number changes no state at all: the MainUI is as it was before.
C18_RejectedConfigChangesNothing ==
    RejectedConfig => win = last.pre

\* C18's case: a negative number of points is typed after samples have arrived
C18_Witness ==
    /\ last.op = "setDataPts"
    /\ last.text = <<"-", "1">>
    /\ Len(win.flowY) > 1
    /\ Len(win.coY) > 1
    /\ win.histCap = HistCapInit

\* the number a numeral stands for
NumeralValue(text) == ParseNumber(text).val

\* the last handler was a flow sample, and the flow trigger was changed between the
\* flow sample before it and this one
FlowTriggerChanged ==
    /\ last.op = "flow"
    /\ Len(obs.flowSeen) >= 2
    /\ obs.flowSeen[Len(obs.flowSeen) - 1].trig # last.pre.floTrig

\* the same for the CO2 channel
CoTriggerChanged ==
    /\ last.op = "co"
    /\ Len(obs.coSeen) >= 2
    /\ obs.coSeen[Len(obs.coSeen) - 1].trig # last.pre.coTrig

\* C19: a trigger update given a number changes the trigger and nothing else (the
\* contributions of an open breath, the breaths emitted, the CO2 integral and the
\* point count are as before), and the first sample of the channel after the update
\* is decided by the new trigger: a flow sample leaves a breath open exactly when it
\* is >= the new trigger and closes an open breath, with the volume accumulated
\* before, when it is below; a CO2 sample is integrated exactly when it is above.
C19_TriggerUpdateFrame ==
    /\ (last.op = "setIntegPts" /\ IsNumeral(last.text)) =>
          win = [last.pre EXCEPT !.floTrig = NumeralValue(last.text)]
    /\ (last.op = "setCoIntegPts" /\ IsNumeral(last.text)) =>
          win = [last.pre EXCEPT !.coTrig = NumeralValue(last.text)]
    /\ FlowTriggerChanged =>
          /\ win.volFlag = (last.n >= last.pre.floTrig)
          /\ (last.pre.volFlag /\ last.n < last.pre.floTrig) =>
                win.volBreathsQ = Append(last.pre.volBreathsQ, SeqSum(last.pre.curVol))
    /\ CoTriggerChanged =>
          (win.integratedCoPts = last.pre.integratedCoPts + 1) = (last.n > last.pre.coTrig)

\* C19's case: a breath was open under the old trigger, the trigger was raised, and
\* the next flow sample, which the old trigger would have added to the breath, has
\* closed it
C19_Witness ==
    /\ FlowTriggerChanged
    /\ last.pre.volFlag
    /\ ~win.volFlag
    /\ last.n >= obs.flowSeen[Len(obs.flowSeen) - 1].trig
    /\ last.n < last.pre.floTrig
    /\ Len(win.volBreathsQ) = 1

-----------------------------------------------------------------------------
(* Threads: C20 *)

\* what dataUpdate makes of the MainUI it started on, run in one piece
InOnePiece ==
    dataUpdate(last.pre, fs, IF last.op = "flow" THEN 0 ELSE 1, last.n, clock,
               TRUE, TRUE).self

\* C20: the engine state is changed by the handlers the main thread runs and by
\* nothing else, and the main thread runs one handler to its end before it starts
\* the next, whatever the two workers emit meanwhile: there is never more than one
\* handler in progress, and when dataUpdate has returned the MainUI is what
\* dataUpdate makes, run in one piece, of the MainUI it started on.
C20_HandlersDoNotInterleave ==
    /\ Len(stack) <= 1
    /\ (stack = <<>> /\ last.op \in {"flow", "co"}) => win = InOnePiece

\* C20's case: a handler is in progress while a signal of the other worker waits
C20_Witness ==
    /\ stack # <<>>
    /\ queue # <<>>
    /\ Head(stack).index # Head(queue).index
    /\ obs.samples >= 1

\* the values of the signals of one channel among q, in order
RECURSIVE OfChannel(_, _)
OfChannel(q, index) ==
    IF q = <<>> THEN <<>>
    ELSE (IF Head(q).index = index THEN <<Head(q).n>> ELSE <<>>)
         \o OfChannel(Tail(q), index)

\* C21: the values dataUpdate has taken up for a channel (they follow the initial
\* entry of the channel's raw history), followed by the values of that channel
\* still waiting, are the values the channel's worker emitted, in the order it
\* emitted them: none is dropped, duplicated or reordered, whatever the other
\* channel does in between.
C21_ChannelOrderKept ==
    /\ Tail(win.flowY) \o OfChannel(queue, 0) = obs.sentFlow
    /\ Tail(win.coY) \o OfChannel(queue, 1) = obs.sentCo

\* C21's case: two different flow values with a CO2 value emitted between them
\* waited together and have all been handled
C21_Witness ==
    /\ Len(obs.sentFlow) = 2
    /\ obs.sentFlow[1] # obs.sentFlow[2]
    /\ Len(obs.sentCo) = 1
    /\ queue = <<>>
    /\ stack = <<>>
    /\ win.flowY = <<0>> \o obs.sentFlow
    /\ Last(win.coX) < Last(win.flowX)
    /\ win.coX[2] > win.flowX[2]

\* the CO2 samples dataUpdate has handled to its end
CoHandled ==
    Len(win.coY) - 1 - (IF stack # <<>> /\ Head(stack).index = 1 THEN 1 ELSE 0)

\* the state of the flow engine
FlowEngine(w) == <<w.volFlag, w.curVol, w.volBreathsQ>>

\* a step other than the end of the handling of a flow sample and a reset
NoFlowHandlerStep ==
    /\ stack = <<>> \/ Head(stack).index # 0 \/ stack' = stack
    /\ obs'.resets = obs.resets

\* C22: whatever the flow worker does, be it silent for ever, every CO2 sample
\* emitted is eventually handled to its end; and as long as no flow sample is
\* handled the state of the flow engine stays as it is (an open breath stays open):
\* only the handling of a flow sample and a reset change it.
C22_StallDoesNotBlock ==
    /\ \A k \in 1..MaxQueueSamples : (Len(obs.sentCo) >= k) ~> (CoHandled >= k)
    /\ [][NoFlowHandlerStep => FlowEngine(win') = FlowEngine(win)]_vars

\* C22's case: a breath is open, the flow worker has gone silent, and two CO2
\* samples have been handled since
C22_Witness ==
    /\ win.volFlag
    /\ OfChannel(queue, 0) = <<>>
    /\ stack = <<>>
    /\ CoHandled >= 2
    /\ win.coX[2] > Last(win.flowX)

-----------------------------------------------------------------------------
(* The workers: C23 *)

\* the last pass of a worker's loop was a read of the device on channel index
ReadPass(index) == workers.last.index = index /\ workers.last.read

\* C23: after a pass in which the read of the device failed or gave no number, the
\* worker is still in its loop and has emitted one sample more, the value it last
\* read (0.0 if none).
C23_FailedReadRepeatsLast ==
    /\ ReadPass(0) /\ ~FlowReadGood(workers.last.rd)
          => /\ workers.flow.pc = "run"
             /\ workers.flow.sent = Append(workers.last.pre.sent, workers.flowGood)
    /\ ReadPass(1) /\ ~CoReadGood(workers.last.rd)
          => /\ workers.co.pc = "run"
             /\ workers.co.sent = Append(workers.last.pre.sent, workers.coGood)

-----------------------------------------------------------------------------
(* The display histories: C24 *)

\* the last handler was setDataPts with a number of points it accepts
AcceptedDataPts ==
    last.op = "setDataPts" /\ IsNumeral(last.text) /\ last.text[1] # "-"

\* the pair (xs, ys) is the pair (xs0, ys0) with one timestamp and one value
\* appended, the oldest dropped when the capacity is exceeded
OneMore(xs, ys, xs0, ys0, t, n, cap) ==
    /\ xs = LastN(Append(xs0, t), cap)
    /\ ys = LastN(Append(ys0, n), cap)

\* C24: the two raw histories of a channel have the same length, at most the
\* capacity, which is 500 until setDataPts accepts a number and that number from
\* then on; a sample adds one timestamp and one value to the pair of its channel,
\* the oldest being evicted when the pair is full, and leaves the other pair alone.
C24_RawHistoryBounded ==
    /\ Len(win.flowX) = Len(win.flowY) /\ Len(win.flowY) <= win.histCap
    /\ Len(win.coX) = Len(win.coY) /\ Len(win.coY) <= win.histCap
    /\ win.histCap = IF AcceptedDataPts THEN NumeralValue(last.text)
                     ELSE last.pre.histCap
    /\ last.op = "init" => win.histCap = HistCapInit
    /\ last.op = "flow" =>
          /\ OneMore(win.flowX, win.flowY, last.pre.flowX, last.pre.flowY, clock,
                     last.n, win.histCap)
          /\ win.coX = last.pre.coX /\ win.coY = last.pre.coY
    /\ last.op = "co" =>
          /\ OneMore(win.coX, win.coY, last.pre.coX, last.pre.coY, clock, last.n,
                     win.histCap)
          /\ win.flowX = last.pre.flowX /\ win.flowY = last.pre.flowY

\* C24's case: the capacity was set to 2 and a flow sample arrives when the flow
\* pair is full, the CO2 pair holding one point
C24_Witness ==
    /\ win.histCap = 2
    /\ last.op = "flow"
    /\ Len(last.pre.flowY) = 2
    /\ Len(win.flowY) = 2
    /\ win.flowY[1] = last.pre.flowY[2]
    /\ Len(win.coY) = 1

-----------------------------------------------------------------------------
(* The engines and the display histories: C25 *)

\* what the engines of a MainUI hold and show
EngineOutputs(w) ==
    <<w.volFlag, w.curVol, w.volBreathsQ, w.label_vol_cur, w.label_vol_avg,
      w.integratedCo, w.integratedCoPts, w.integratedCoTime, w.label_veVc>>

\* C25: two runs fed the same samples, whatever numbers of points were set in the
\* one and in the other and whenever, agree on the breath-volume history, the open
\* breath, the CO2 integral, the point count and the ratio of each sample; and the
\* breath volumes the one has logged are the breath-volume history of the other.
C25_EnginesIgnoreHistory ==
    /\ EngineOutputs(win) = EngineOutputs(fresh)
    /\ last.ratio = last.freshRatio
    /\ EmittedVols = fresh.volBreathsQ

\* C25's case: the two runs have different capacities, smaller than the number of
\* samples, a breath has been logged and a ratio computed
C25_Witness ==
    /\ win.histCap # fresh.histCap
    /\ win.histCap < HistCapInit /\ fresh.histCap < HistCapInit
    /\ Len(win.coY) # Len(fresh.coY)
    /\ win.volBreathsQ # <<>>
    /\ win.integratedCoPts >= 2
    /\ last.ratio # None

-----------------------------------------------------------------------------
(* Long breaths: C26 *)

\* the flow samples of the breath that the last sample closed: the run of samples
\* at/above their trigger that ends just before it
ClosedRun ==
    LET s == obs.flowSeen
        j == Len(s) - 1
        i == CHOOSE a \in 1..j :
                 /\ \A k \in a..j : WasAbove(s[k])
                 /\ a = 1 \/ ~WasAbove(s[a - 1])
    IN  SubSeq(s, i, j)

\* C26: when a breath closes, the volume recorded for it holds the contribution of
\* every sample of the breath: it is not less than their sum.
C26_LongBreathKeepsAll ==
    BreathClosedNow => Last(win.volBreathsQ) >= SumAbove(ClosedRun)

-----------------------------------------------------------------------------
(* The two channels: C27 *)

\* what the CO2 engine holds, and the CO2 display history
CoSide(w) ==
    <<w.integratedCo, w.integratedCoPts, w.integratedCoTime, w.veVco2Val, w.coX, w.coY>>

\* what the flow engine holds, and the flow display history
FlowSide(w) == <<w.volFlag, w.curVol, w.volBreathsQ, w.flowX, w.flowY>>

\* C27: the handling of a flow sample leaves the CO2 integral, point count,
\* integrated timestamps, ratio history and raw history as they were; the handling
\* of a CO2 sample leaves the open flag, the contributions of the open breath, the
\* breath-volume history and the flow raw history as they were.
C27_ChannelsIndependent ==
    /\ last.op = "flow" => CoSide(win) = CoSide(last.pre)
    /\ last.op = "co" => FlowSide(win) = FlowSide(last.pre)

\* C27's case: a CO2 sample is integrated while a breath is open and an integral
\* has been built up, after a flow sample that opened the breath
C27_Witness ==
    /\ last.op = "co"
    /\ win.integratedCoPts = last.pre.integratedCoPts + 1
    /\ win.integratedCoPts >= 2
    /\ win.volFlag
    /\ Len(win.flowY) >= 2
    /\ Last(win.flowX) > win.coX[2]

-----------------------------------------------------------------------------
(* The rows of the log: C28 *)

\* a row of as many fields as the header, of which exactly those of cols are not null
OnlyNonNull(row, cols) ==
    /\ Len(row) = Len(Header)
    /\ \A i \in 1..Len(row) : (row[i] # None) <=> (i \in cols)

\* every row of every file has the 10 fields of the header
AllRowsTen ==
    /\ Len(Header) = 10
    /\ \A f \in DOMAIN fs : \A i \in 1..Len(fs[f]) : Len(fs[f][i]) = 10

\* the rows a step that handles a sample adds to the log in use: for a flow sample
\* one row with the flow timestamp and value only, followed by nothing but breath
\* rows (breath timestamp and volume only); for a CO2 sample one row with the CO2
\* timestamp and value only
SampleRowsShaped ==
    obs'.samples = obs.samples + 1 =>
        LET rows == NewRows(fs, fs', win.saveName)
        IN  IF last'.op = "flow"
            THEN /\ Len(rows) >= 1
                 /\ OnlyNonNull(rows[1], {1, 2})
                 /\ rows[1][1] = Some(clock') /\ rows[1][2] = Some(last'.n)
                 /\ \A i \in 2..Len(rows) : OnlyNonNull(rows[i], {5, 6})
            ELSE /\ Len(rows) = 1
                 /\ OnlyNonNull(rows[1], {3, 4})
                 /\ rows[1][3] = Some(clock') /\ rows[1][4] = Some(last'.n)

\* C28: each flow sample handled adds exactly one row with only the flow timestamp
\* and value, each CO2 sample exactly one row with only the CO2 timestamp and
\* value, a breath row has only the breath timestamp and volume, and every row has
\* the 10 fields of the header.
C28_RowShapes == []AllRowsTen /\ [][SampleRowsShaped]_vars

\* C28's case: the log holds a CO2 row, and its last two rows are the row of the
\* flow sample that closed a breath and the row of that breath
C28_Witness ==
    LET f == fs[win.saveName]
    IN  /\ BreathClosedNow
        /\ Len(f) >= 5
        /\ OnlyNonNull(f[Len(f)], {5, 6})
        /\ OnlyNonNull(f[Len(f) - 1], {1, 2})
        /\ \E i \in 2..Len(f) : OnlyNonNull(f[i], {3, 4})

-----------------------------------------------------------------------------
(* The simulated sensors: C29 *)

\* the last pass of a worker's loop was made by the simulating worker of the channel
SimPass(index) == workers.last.index = index /\ ~workers.last.pre.enableChk

WorkerOf(index) == IF index = 0 THEN workers.flow ELSE workers.co

\* C29: a pass of the loop of a simulating worker emits one reading and stays in
\* the loop when enableVar is true, however many passes came before; when
\* enableVar is false it emits nothing, leaves the loop and emits finished, once.
C29_SimulatedWorkerRuns ==
    \A index \in {0, 1} :
        SimPass(index) =>
            LET w == WorkerOf(index)
                p == workers.last.pre
            IN  IF p.enableVar
                THEN /\ w.pc = "run"
                     /\ Len(w.sent) = Len(p.sent) + 1
                     /\ w.finished = 0
                ELSE /\ w.pc = "finished"
                     /\ w.finished = 1
                     /\ w.sent = p.sent

-----------------------------------------------------------------------------
(* A Save that fails: C30 *)

\* the last handler was newSave with a name that cannot be opened
FailedSave == last.op = "newSave" /\ ~CanOpen(last.text[1])

\* the last handler was a sample handled after a Save that failed: the name in use
\* before the sample is not one that was opened
SampleAfterFailedSave ==
    last.op \in {"flow", "co"} /\ ~CanOpen(last.pre.saveName)

\* C30: a newSave that fails changes no program data: the save-file name in use
\* and the state of the Save and Stop buttons are as before it; hence no sample is
\* ever handled under a name that could not be opened, and its row is logged.
C30_FailedSaveChangesNothing ==
    /\ FailedSave =>
          /\ win.saveName = last.pre.saveName
          /\ win.saving = last.pre.saving
          /\ win = last.pre
    /\ ~SampleAfterFailedSave

-----------------------------------------------------------------------------
(* The flow worker and its meter: the worker asks for a batch of BatchSize       *)
(* readings when count is below 1, the meter sends the readings it still owes,   *)
(* PerRecv of them arriving in each recv, and is silent once the batch is out    *)

\* what one recv(1024) returns when k readings have arrived, one a line
BatchText(k) ==
    IF k = 1 THEN <<"1", ".", "5">> ELSE <<"1", ".", "5", "\r", "2", ".", "5">>

\* the outcome of recv when the meter still owes pending readings: a timeout when it
\* owes none
BatchRead(pending, perRecv) ==
    IF pending = 0 THEN [ok |-> FALSE, text |-> <<>>, resetOk |-> TRUE]
    ELSE [ok |-> TRUE,
          text |-> BatchText(IF pending < perRecv THEN pending ELSE perRecv),
          resetOk |-> TRUE]

\* Connect, the meter answering; readings arrive one or two a recv in this run
BatchStart ==
    /\ workers.flow.pc = "idle"
    /\ \E k \in PerRecvs :
          workers' = [runSensor(workers, 0, TRUE) EXCEPT !.meter.perRecv = k]
    /\ UNCHANGED app

\* one pass of the flow worker's loop: sendall(b'DAFxx0475\r') when count < 1, on
\* which the meter starts a batch anew or adds one to what it owes; then recv
BatchPass ==
    /\ workers.flow.pc = "run"
    /\ workers.flow.passes < MaxBatchPasses
    /\ LET w         == workers.flow
           m         == workers.meter
           requested == w.enableVar /\ w.enableChk /\ w.count < 1
       IN  \E owed \in (IF requested THEN {BatchSize, m.pending + BatchSize}
                        ELSE {m.pending}) :
              LET rd   == BatchRead(owed, m.perRecv)
                  r    == FlowWorkerRun(w, workers.flowOld, rd)
                  took == IF owed < m.perRecv THEN owed ELSE m.perRecv
              IN  workers' = [workers EXCEPT
                      !.flow = [r.w EXCEPT !.passes = @ + 1],
                      !.flowOld = r.old,
                      !.meter = [m EXCEPT
                          !.pending = owed - took,
                          !.requests = IF requested THEN @ + 1 ELSE @]]
    /\ UNCHANGED app

NextBatch ==
    \/ BatchStart
    \/ BatchPass

SpecBatch == Init /\ [][NextBatch]_vars

-----------------------------------------------------------------------------
(* Connect and Disconnect: C31 *)

\* the workers of a channel that are in their loop: the one MainUI holds and those
\* it no longer holds
Producers(index) ==
    (IF CurrentWorker(workers, index).pc = "run" THEN <<CurrentWorker(workers, index)>>
     ELSE <<>>)
        \o [k \in 1..Len(SelectSeq(workers.orphans,
                                   LAMBDA o : o.index = index /\ o.w.pc = "run")) |->
              SelectSeq(workers.orphans,
                        LAMBDA o : o.index = index /\ o.w.pc = "run")[k].w]

\* C31: whatever the sequence of Connect and Disconnect, a channel never has more
\* than one worker in its loop, a Connect leaves the application running, and after
\* a Disconnect every worker of the channel still in its loop has been told to stop.
C31_OneProducerPerChannel ==
    /\ \A index \in {0, 1} : Len(Producers(index)) <= 1
    /\ last.op = "runSensor" => alive
    /\ last.op = "killSensor" /\ last.exc = "none" =>
          \A k \in 1..Len(Producers(last.n)) : ~Producers(last.n)[k].enableVar

-----------------------------------------------------------------------------
(* Disconnect before any Connect: C36 *)

\* the last press was a Disconnect of a channel whose worker was never started
\* (a worker once started never returns to "idle")
DisconnectedIdle ==
    /\ last.op = "killSensor"
    /\ CurrentWorker(workers, last.n).pc = "idle"

\* C36: a Disconnect for a channel whose worker was never started raises nothing,
\* leaves the application running and changes no state.
C36_DisconnectBeforeConnect ==
    DisconnectedIdle =>
        /\ last.exc = "none"
        /\ alive
        /\ win = last.pre
        /\ workers = WorkersInit \/ CurrentWorker(workers, 1 - last.n).pc # "idle"

-----------------------------------------------------------------------------
(* Disconnect stops the worker: C32 *)

\* Disconnect has run for the channel
Stopped(index) ==
    /\ CurrentWorker(workers, index).pc # "idle"
    /\ ~CurrentWorker(workers, index).enableVar

\* the samples the worker emitted since the Disconnect
SentAfterKill(index) ==
    Len(CurrentWorker(workers, index).sent) - workers.sentAtKill[index + 1]

KilledWorkerBounded ==
    \A index \in {0, 1} :
        Stopped(index) =>
            /\ CurrentWorker(workers, index).finished <= 1
            /\ CurrentWorker(workers, index).pc = "finished" =>
                  CurrentWorker(workers, index).finished = 1
            /\ SentAfterKill(index) <= MaxAfterKill

\* C32: after a Disconnect the worker of the channel, wherever in its loop it was,
\* eventually has left the loop and emitted finished, exactly once, having emitted
\* at most MaxAfterKill further samples.
C32_KilledWorkerFinishes ==
    /\ []KilledWorkerBounded
    /\ \A index \in {0, 1} :
          Stopped(index) ~> (CurrentWorker(workers, index).pc = "finished")

-----------------------------------------------------------------------------
(* Batch requests of the flow worker: C33 *)

\* the meter has sent all it owed and the worker will not ask for more: every recv
\* from here on times out, the failure handler leaves count as it is, and count
\* stays at or above 1
Starved ==
    /\ workers.flow.pc = "run"
    /\ workers.flow.enableChk
    /\ workers.meter.requests >= 1
    /\ workers.meter.pending = 0
    /\ workers.flow.count >= 1

\* C33: a connected flow worker has sent a batch request by the end of its first
\* pass, and is never in a state where the meter has delivered the whole batch it
\* was asked for while the worker goes on without asking for another.
C33_BatchRequested ==
    /\ workers.flow.enableChk /\ workers.flow.passes >= 1 => workers.meter.requests >= 1
    /\ ~Starved

-----------------------------------------------------------------------------
(* Buffers plotted against each other: C34 *)

\* C34: between handlers the CO2 time, CO2 value and ratio buffers have one length,
\* and the flow time, flow value and integrated-flow buffers have one length.
C34_PlottedBuffersAligned ==
    /\ Len(win.coX) = Len(win.coY)
    /\ Len(win.coX) = Len(win.veVco2Val)
    /\ Len(win.flowX) = Len(win.flowY)
    /\ Len(win.flowX) = Len(win.integX)
    /\ Len(win.flowX) = Len(win.integY)

-----------------------------------------------------------------------------
(* The integral with a trigger that is not negative: C35 *)

\* the trigger is not negative now and was not at any CO2 sample since the last
\* resetAvg (or the start)
TrigNonNegative ==
    /\ win.coTrig >= 0
    /\ \A k \in 1..Len(obs.coSeen) : obs.coSeen[k].trig >= 0

\* C35: when the CO2 trigger has not been negative since the last reset, the
\* integral is zero exactly when the point count is zero and positive when the
\* count is positive, and a CO2 sample above the trigger ends without an exception
\* with a ratio that is positive, computed from a point count of at least 1.
C35_IntegralPositive ==
    TrigNonNegative =>
        /\ win.integratedCoPts = 0 <=> win.integratedCo = 0
        /\ win.integratedCoPts > 0 => win.integratedCo > 0
        /\ (last.op = "co" /\ last.n > last.pre.coTrig) =>
              /\ last.exc = "none"
              /\ last.ratio # None
              /\ last.ratio[1].num > 0
              /\ last.ratio[1].den > 0
              /\ win.integratedCoPts >= 1

\* C35's case: the trigger is zero and a second reading of 1000 ppm has been
\* integrated
C35_Witness ==
    /\ TrigNonNegative
    /\ win.coTrig = 0
    /\ last.op = "co"
    /\ last.n = 1000
    /\ win.integratedCoPts >= 2
    /\ last.ratio # None

=============================================================================
